---------------------------- MODULE Spec2Model ----------------------------
(***************************************************************************)
(* A model of the software 2D rasterizer of the apparatus engine: the      *)
(* packed colour and its linear blend (src/color.rs), the Bresenham line   *)
(* walker (src/renderer/bresenham.rs) and the renderer's pixel, line,      *)
(* rectangle, circle and triangle operations (src/renderer/software_2d.rs).*)
(*                                                                         *)
(* TLC's integers are 32 bits wide, so an f32 is kept as a 24-bit          *)
(* significand and an exponent and every f32 operation rounds to nearest,  *)
(* ties to even, as the hardware does; a u32 buffer word is kept as its    *)
(* two 16-bit halves.                                                      *)
(***************************************************************************)
EXTENDS Integers, Sequences, FiniteSets, TLC

VARIABLES
    blend,      \* SpecBlend: the arguments and the result of Color::linear_blend
    walker,     \* SpecLine: a BresenhamLine, the points it yielded, its last return
    cfg,        \* Renderer: width, height, pixel_width, pixel_height
    buffer,     \* Renderer: FrameBuffer.data, index -> u32 word
    prev,       \* the buffer as the last drawing operation found it
    last,       \* the last renderer operation and its arguments
    ndraw,      \* drawing operations since the last clear (or construction)
    tri,        \* SpecTri: the position of draw_filled_triangle and its locals
    input,      \* SpecInput: Input.keys and Input.mouse
    circle,     \* SpecCircle: the position of a circle call and its locals
    app         \* SpecRun: the position of Apparatus::run and its record of calls

vars == <<blend, walker, cfg, buffer, prev, last, ndraw, tri, input, circle, app>>

\* Option::None of an item that is a tuple.
None == <<>>

(***************************************************************************)
(* f32 arithmetic.  A finite non-negative f32 is [m, e] with value m * 2^e *)
(* and m = 0 or 2^23 <= m < 2^24.                                          *)
(***************************************************************************)
FZero == [m |-> 0, e |-> 0]

RECURSIVE Normalize(_, _)
Normalize(m, e) ==
    IF m = 0 THEN FZero
    ELSE IF m < 2^12 THEN Normalize(4096 * m, e - 12)
    ELSE IF m < 2^20 THEN Normalize(16 * m, e - 4)
    ELSE IF m < 2^23 THEN Normalize(2 * m, e - 1)
    ELSE [m |-> m, e |-> e]

\* `n as f32` for an integer 0 <= n < 2^24: exact.
ToF32(n) == Normalize(n, 0)

\* Round to nearest, ties to even: significand m at exponent e, with the
\* discarded part num/den of one unit in the last place (0 <= num < den).
RoundNE(m, e, num, den) ==
    LET up == (2 * num > den) \/ (2 * num = den /\ m % 2 = 1)
        m1 == IF up THEN m + 1 ELSE m
    IN  IF m1 = 2^24 THEN [m |-> 2^23, e |-> e + 1] ELSE [m |-> m1, e |-> e]

\* a * b.  The 48-bit product of the significands is built from 12-bit limbs.
FMul(a, b) ==
    IF a.m = 0 \/ b.m = 0 THEN FZero
    ELSE
    LET a1 == a.m \div 4096
        a0 == a.m % 4096
        b1 == b.m \div 4096
        b0 == b.m % 4096
        mid == a1 * b0 + a0 * b1
        low == (mid % 4096) * 4096 + a0 * b0
        H == a1 * b1 + (mid \div 4096) + (low \div 2^24)   \* product = H * 2^24 + L
        L == low % 2^24
    IN  IF H >= 2^23
        THEN RoundNE(H, a.e + b.e + 24, L, 2^24)
        ELSE RoundNE(2 * H + (L \div 2^23), a.e + b.e + 23, L % 2^23, 2^23)

\* Long division: 6 more quotient bits of rem / den per step.
RECURSIVE LongDiv(_, _, _, _)
LongDiv(q, rem, den, steps) ==
    IF steps = 0 THEN [q |-> q, r |-> rem]
    ELSE LongDiv(q * 64 + ((rem * 64) \div den), (rem * 64) % den, den, steps - 1)

\* Division that drops the remainder instead of rounding to nearest.
FDivTruncating(a, b) ==
    IF a.m = 0 THEN FZero
    ELSE
    LET d == LongDiv(a.m \div b.m, a.m % b.m, b.m, 4)
    IN  IF d.q >= 2^24
        THEN [m |-> d.q \div 2, e |-> a.e - b.e - 23]
        ELSE [m |-> d.q, e |-> a.e - b.e - 24]

\* a / b for b > 0.
FDiv(a, b) ==
    IF a.m = 0 THEN FZero
    ELSE
    LET d == LongDiv(a.m \div b.m, a.m % b.m, b.m, 4)   \* floor(a.m * 2^24 / b.m)
    IN  IF d.q >= 2^24
        THEN RoundNE(d.q \div 2, a.e - b.e - 23, (d.q % 2) * b.m + d.r, 2 * b.m)
        ELSE RoundNE(d.q, a.e - b.e - 24, d.r, b.m)

\* a + b.
FAdd(a, b) ==
    IF a.m = 0 THEN b
    ELSE IF b.m = 0 THEN a
    ELSE
    LET hi == IF a.e >= b.e THEN a ELSE b
        lo == IF a.e >= b.e THEN b ELSE a
        sh == hi.e - lo.e
    IN  IF sh > 25 THEN hi
        ELSE
        LET q == lo.m \div 2^sh
            r == lo.m % 2^sh
            sum == hi.m + q
        IN  IF sum < 2^24
            THEN RoundNE(sum, hi.e, r, 2^sh)
            ELSE RoundNE(sum \div 2, hi.e + 1, (sum % 2) * 2^sh + r, 2^(sh + 1))

\* a - b for a >= b >= 0.
FSub(a, b) ==
    IF b.m = 0 THEN a
    ELSE
    LET sh == a.e - b.e
    IN  IF sh = 0 THEN Normalize(a.m - b.m, a.e)
        ELSE IF sh > 26 THEN a
        ELSE
        \* in units of half a unit in the last place of a
        LET den == 2^(sh - 1)
            q == b.m \div den
            r == b.m % den
            D == 2 * a.m - q - (IF r > 0 THEN 1 ELSE 0)
            num == IF r > 0 THEN den - r ELSE 0
        IN  IF D >= 2^24
            THEN RoundNE(D \div 2, a.e, (D % 2) * den + num, 2 * den)
            ELSE IF D >= 2^23 THEN RoundNE(D, a.e - 1, num, den)
            ELSE Normalize(D, a.e - 1)

\* Truncation toward zero of a value known to be below 2^31.
FTrunc(a) ==
    IF a.m = 0 \/ a.e < -24 THEN 0
    ELSE IF a.e >= 0 THEN a.m * 2^a.e
    ELSE a.m \div 2^(-a.e)

U8Max == 255

\* The literals 1.0 and 255.0.
FOne == ToF32(1)
F255 == ToF32(U8Max)

\* `f as u8`: truncates toward zero and saturates.
AsU8(a) ==
    IF a.m # 0 /\ a.e >= -15 THEN U8Max
    ELSE LET n == FTrunc(a) IN IF n > U8Max THEN U8Max ELSE n

(***************************************************************************)
(* Color: the byte array [a, r, g, b] and its blend.                       *)
(***************************************************************************)
rgba(r, g, b, a) == <<a, r, g, b>>

ColorR(c) == c[2]
ColorG(c) == c[3]
ColorB(c) == c[4]
ColorA(c) == c[1]

\* The weights exchanged: dst * t + src * (1.0 - t).
interpolate_scalar_swapped(src, dst, t) ==
    FAdd(FMul(dst, t), FMul(src, FSub(FOne, t)))

\* dst * (1.0 - t) + src * t
interpolate_scalar(src, dst, t) ==
    FAdd(FMul(dst, FSub(FOne, t)), FMul(src, t))

\* One channel of linear_blend: both channels scaled to 0..1, interpolated,
\* scaled back by 255.0 and cast to u8.
blend_channel(s, d, t) ==
    AsU8(FMul(interpolate_scalar(FDiv(ToF32(s), F255), FDiv(ToF32(d), F255), t),
              F255))

\* linear_blend that gives the result the source's alpha instead of 255.
linear_blend_src_alpha(src, dst) ==
    LET t == FDiv(ToF32(ColorA(src)), F255)
    IN  rgba(blend_channel(ColorR(src), ColorR(dst), t),
             blend_channel(ColorG(src), ColorG(dst), t),
             blend_channel(ColorB(src), ColorB(dst), t),
             ColorA(src))

linear_blend(src, dst) ==
    LET t == FDiv(ToF32(ColorA(src)), F255)
    IN  rgba(blend_channel(ColorR(src), ColorR(dst), t),
             blend_channel(ColorG(src), ColorG(dst), t),
             blend_channel(ColorB(src), ColorB(dst), t),
             U8Max)

\* The bytes taken in little-endian order: the word 0xBBGGRRAA.
ColorToU32LittleEndian(c) == [hi |-> c[4] * 256 + c[3], lo |-> c[2] * 256 + c[1]]

\* u32::from_be_bytes(color.0): the word 0xAARRGGBB, as its two 16-bit halves.
ColorToU32(c) == [hi |-> c[1] * 256 + c[2], lo |-> c[3] * 256 + c[4]]

(***************************************************************************)
(* BresenhamLine: the iterator's fields and one call of next().            *)
(***************************************************************************)
Abs(n) == IF n < 0 THEN -n ELSE n

\* BresenhamLine::new with dy left positive (the negation forgotten).
BresenhamNewPositiveDy(x0, y0, x1, y1) ==
    [x0 |-> x0, y0 |-> y0, x1 |-> x1, y1 |-> y1,
     dx |-> Abs(x1 - x0), dy |-> Abs(y1 - y0),
     sx |-> IF x0 < x1 THEN 1 ELSE -1,
     sy |-> IF y0 < y1 THEN 1 ELSE -1,
     error |-> Abs(x1 - x0) + Abs(y1 - y0),
     line_complete |-> FALSE]

\* new() with sx = 1 whatever the direction of the line.
BresenhamNewStepsRight(x0, y0, x1, y1) ==
    [x0 |-> x0, y0 |-> y0, x1 |-> x1, y1 |-> y1,
     dx |-> Abs(x1 - x0), dy |-> -Abs(y1 - y0),
     sx |-> 1,
     sy |-> IF y0 < y1 THEN 1 ELSE -1,
     error |-> Abs(x1 - x0) + (-Abs(y1 - y0)),
     line_complete |-> FALSE]

\* BresenhamLine::new.  The u32 arguments are cast to i32; the coordinates of
\* the model stay far below 2^31, where the cast changes nothing.
BresenhamNew(x0, y0, x1, y1) ==
    [x0 |-> x0, y0 |-> y0, x1 |-> x1, y1 |-> y1,
     dx |-> Abs(x1 - x0), dy |-> -Abs(y1 - y0),
     sx |-> IF x0 < x1 THEN 1 ELSE -1,
     sy |-> IF y0 < y1 THEN 1 ELSE -1,
     error |-> Abs(x1 - x0) + (-Abs(y1 - y0)),
     line_complete |-> FALSE]

\* next() without the early return on line_complete.
BresenhamNextNoEarlyReturn(l) ==
    LET point == <<l.x0, l.y0>>
        error_2 == 2 * l.error
        l1 == IF l.x0 = l.x1 /\ l.y0 = l.y1
              THEN [l EXCEPT !.line_complete = TRUE] ELSE l
        l2 == IF error_2 >= l1.dy
              THEN IF l1.x0 = l1.x1
                   THEN [l1 EXCEPT !.line_complete = TRUE]
                   ELSE [l1 EXCEPT !.error = @ + l1.dy, !.x0 = @ + l1.sx]
              ELSE l1
        l3 == IF error_2 < l2.dx
              THEN IF l2.y0 = l2.y1
                   THEN [l2 EXCEPT !.line_complete = TRUE]
                   ELSE [l2 EXCEPT !.error = @ + l2.dx, !.y0 = @ + l2.sy]
              ELSE l2
    IN  [line |-> l3, item |-> point]

\* Iterator::next for BresenhamLine: the line after the call and the item
\* returned (None or Some(point)).
BresenhamNext(l) ==
    IF l.line_complete THEN [line |-> l, item |-> None]
    ELSE
    LET point == <<l.x0, l.y0>>
        error_2 == 2 * l.error
        l1 == IF l.x0 = l.x1 /\ l.y0 = l.y1
              THEN [l EXCEPT !.line_complete = TRUE] ELSE l
        l2 == IF error_2 >= l1.dy
              THEN IF l1.x0 = l1.x1
                   THEN [l1 EXCEPT !.line_complete = TRUE]
                   ELSE [l1 EXCEPT !.error = @ + l1.dy, !.x0 = @ + l1.sx]
              ELSE l1
        l3 == IF error_2 < l2.dx
              THEN IF l2.y0 = l2.y1
                   THEN [l2 EXCEPT !.line_complete = TRUE]
                   ELSE [l2 EXCEPT !.error = @ + l2.dx, !.y0 = @ + l2.sy]
              ELSE l2
    IN  [line |-> l3, item |-> point]

(***************************************************************************)
(* Renderer.  Coordinates are f32 in the source; the model draws them from *)
(* the integers, which f32 holds exactly below 2^24.  The operations read  *)
(* width, height, pixel_width and pixel_height from cfg.                   *)
(***************************************************************************)
clamp(min, value, max) ==
    IF value < min THEN min
    ELSE IF value > max THEN max
    ELSE value

\* A Vec<u32> is a sequence: the element at index i is the (i + 1)-th.
\* vec![x; n].
RECURSIVE VecNew(_, _)
VecNew(x, n) == IF n <= 0 THEN <<>> ELSE Append(VecNew(x, n - 1), x)

VecGet(v, i) == v[i + 1]
VecSet(v, i, x) == [v EXCEPT ![i + 1] = x]

\* FrameBuffer::new: width * height words, all 0.
FrameBufferNew(width, height) == VecNew([hi |-> 0, lo |-> 0], width * height)

\* The shifts and masks of put_pixel: (dst >> 24) & 255, (dst >> 16) & 255,
\* (dst >> 8) & 255 and dst & 255, passed to Color::rgba.
UnpackU32(dst) ==
    rgba(dst.hi % 256, (dst.lo \div 256) % 256, dst.lo % 256, (dst.hi \div 256) % 256)

\* put_pixel that indexes the row by y itself (no y-flip).
put_pixel_no_flip(b, x, y, color) ==
    IF x >= 0 /\ x < cfg.width /\ y >= 0 /\ y < cfg.height
    THEN LET buffer_idx == y * cfg.width + x
         IN  VecSet(b, buffer_idx, ColorToU32(linear_blend(color, UnpackU32(VecGet(b, buffer_idx)))))
    ELSE b

\* put_pixel that stores the colour without blending it with the cell.
put_pixel_no_blend(b, x, y, color) ==
    LET yf == cfg.height - y
    IN  IF x >= 0 /\ x < cfg.width /\ yf >= 0 /\ yf < cfg.height
        THEN VecSet(b, yf * cfg.width + x, ColorToU32(color))
        ELSE b

\* Renderer::put_pixel on the buffer b: the buffer after the call.
put_pixel(b, x, y, color) ==
    LET yf == cfg.height - y
    IN  IF x >= 0 /\ x < cfg.width /\ yf >= 0 /\ yf < cfg.height
        THEN LET buffer_idx == yf * cfg.width + x
             IN  VecSet(b, buffer_idx, ColorToU32(linear_blend(color, UnpackU32(VecGet(b, buffer_idx)))))
        ELSE b

\* clear that blends the colour over the cells of a new buffer.
clear_blended(color) ==
    VecNew(ColorToU32(linear_blend(color, UnpackU32([hi |-> 0, lo |-> 0]))),
           cfg.width * cfg.height)

\* clear that allocates one row of the buffer only.
clear_one_row(color) == VecNew(ColorToU32(color), cfg.width)

\* Renderer::clear: a new vector of width * height copies of the packed colour.
clear(color) == VecNew(ColorToU32(color), cfg.width * cfg.height)

\* The two loops of draw, pixel_y outside and pixel_x inside, from the k-th
\* cell of the block on; (x, y) is the block's physical corner.
RECURSIVE DrawBlock(_, _, _, _, _)
DrawBlock(b, x, y, color, k) ==
    IF k >= cfg.pixel_width * cfg.pixel_height THEN b
    ELSE LET pixel_x == k % cfg.pixel_width
             pixel_y == k \div cfg.pixel_width
         IN  DrawBlock(put_pixel(b, clamp(0, x + pixel_x, cfg.width),
                                    clamp(0, y + pixel_y, cfg.height), color),
                       x, y, color, k + 1)

\* Renderer::draw.
draw(b, x, y, color) ==
    DrawBlock(b, x * cfg.pixel_width, y * cfg.pixel_height, color, 0)

\* draw called for the points lo..hi of a sequence, in order, with one
\* colour.  The range is halved, and the first half is evaluated (by the
\* test on it, which an empty buffer alone satisfies) before the second, so
\* that the evaluation stays shallow.
RECURSIVE DrawRange(_, _, _, _, _)
DrawRange(b, points, color, lo, hi) ==
    IF lo > hi THEN b
    ELSE IF lo = hi THEN draw(b, points[lo][1], points[lo][2], color)
    ELSE LET first == DrawRange(b, points, color, lo, (lo + hi) \div 2)
         IN  IF first = <<>> THEN first
             ELSE DrawRange(first, points, color, (lo + hi) \div 2 + 1, hi)

DrawAll(b, points, color) == DrawRange(b, points, color, 1, Len(points))

\* `(v + 0.5) as u32` for a clamped coordinate v >= 0, in halves: the cast
\* truncates toward zero.
AddHalfAsU32(v) == (2 * v + 1) \div 2

\* The items of a BresenhamLine, in order, until next() returns None.
RECURSIVE LineWalk(_)
LineWalk(l) ==
    LET r == BresenhamNext(l)
    IN  IF r.item = None THEN <<>> ELSE <<r.item>> \o LineWalk(r.line)

\* The points draw_line passes to draw, in order.  x.floor() leaves the
\* integer coordinates of the model as they are.
draw_line_points(x0, y0, x1, y1) ==
    LineWalk(BresenhamNew(AddHalfAsU32(clamp(0, x0, cfg.width)),
                          AddHalfAsU32(clamp(0, y0, cfg.height)),
                          AddHalfAsU32(clamp(0, x1, cfg.width)),
                          AddHalfAsU32(clamp(0, y1, cfg.height))))

\* Renderer::draw_line.
draw_line(b, x0, y0, x1, y1, color) ==
    DrawAll(b, draw_line_points(x0, y0, x1, y1), color)

\* The points draw_filled_rectangle passes to draw: rows y0..=y1, and in each
\* row the columns x0..=x1, of the clamped and ordered corners.
\* The points of the rectangle loops without the two swaps: a range that
\* runs from the larger to the smaller coordinate is empty.
draw_filled_rectangle_points_unordered(x, y, width, height) ==
    LET x0 == clamp(0, x, cfg.width)
        y0 == clamp(0, y, cfg.height)
        x1 == clamp(0, x + width, cfg.width)
        y1 == clamp(0, y + height, cfg.height)
        nx == x1 - x0 + 1
        ny == y1 - y0 + 1
    IN  IF nx <= 0 \/ ny <= 0 THEN <<>>
        ELSE [k \in 1..(nx * ny) |-> <<x0 + ((k - 1) % nx), y0 + ((k - 1) \div nx)>>]

draw_filled_rectangle_points(x, y, width, height) ==
    LET cx0 == clamp(0, x, cfg.width)
        cy0 == clamp(0, y, cfg.height)
        cx1 == clamp(0, x + width, cfg.width)
        cy1 == clamp(0, y + height, cfg.height)
        x0 == IF cx0 > cx1 THEN cx1 ELSE cx0
        x1 == IF cx0 > cx1 THEN cx0 ELSE cx1
        y0 == IF cy0 > cy1 THEN cy1 ELSE cy0
        y1 == IF cy0 > cy1 THEN cy0 ELSE cy1
        nx == x1 - x0 + 1
        ny == y1 - y0 + 1
    IN  [k \in 1..(nx * ny) |-> <<x0 + ((k - 1) % nx), y0 + ((k - 1) \div nx)>>]

\* Renderer::draw_filled_rectangle.
draw_filled_rectangle(b, x, y, width, height, color) ==
    DrawAll(b, draw_filled_rectangle_points(x, y, width, height), color)

\* The update of the loop with `x0 += 1` moved into the `d > 0` branch.
CircleStepStalls(c) ==
    IF c.d > 0
    THEN [x0 |-> c.x0 + 1, y0 |-> c.y0 - 1, d |-> c.d + 4 * ((c.x0 + 1) - (c.y0 - 1)) + 10]
    ELSE [x0 |-> c.x0, y0 |-> c.y0, d |-> c.d + 4 * c.x0 + 6]

\* The end of one iteration of the circle loops: x0 += 1, then y0 and d.
CircleStep(c) ==
    IF c.d > 0
    THEN [x0 |-> c.x0 + 1, y0 |-> c.y0 - 1, d |-> c.d + 4 * ((c.x0 + 1) - (c.y0 - 1)) + 10]
    ELSE [x0 |-> c.x0 + 1, y0 |-> c.y0, d |-> c.d + 4 * (c.x0 + 1) + 6]

\* x0 = 0, y0 = radius, d = 3 - 2 * radius.
CircleStart(radius) == [x0 |-> 0, y0 |-> radius, d |-> 3 - 2 * radius]

\* The loop of draw_wireframe_circle with a sign slipped in its last two
\* draws: y + x0 for y - x0.
RECURSIVE WireframeCircleLoopSignSlip(_, _, _)
WireframeCircleLoopSignSlip(x, y, c) ==
    IF ~(c.y0 >= c.x0) THEN <<>>
    ELSE << <<x + c.x0, y + c.y0>>, <<x - c.x0, y + c.y0>>,
            <<x + c.x0, y - c.y0>>, <<x - c.x0, y - c.y0>>,
            <<x + c.y0, y + c.x0>>, <<x - c.y0, y + c.x0>>,
            <<x + c.y0, y + c.x0>>, <<x - c.y0, y + c.x0>> >>
         \o WireframeCircleLoopSignSlip(x, y, CircleStep(c))

\* The points draw_wireframe_circle passes to draw, from the loop state c on.
RECURSIVE WireframeCircleLoop(_, _, _)
WireframeCircleLoop(x, y, c) ==
    IF ~(c.y0 >= c.x0) THEN <<>>
    ELSE << <<x + c.x0, y + c.y0>>, <<x - c.x0, y + c.y0>>,
            <<x + c.x0, y - c.y0>>, <<x - c.x0, y - c.y0>>,
            <<x + c.y0, y + c.x0>>, <<x - c.y0, y + c.x0>>,
            <<x + c.y0, y - c.x0>>, <<x - c.y0, y - c.x0>> >>
         \o WireframeCircleLoop(x, y, CircleStep(c))

draw_wireframe_circle_points(x, y, radius) ==
    WireframeCircleLoop(x, y, CircleStart(radius))

\* Renderer::draw_wireframe_circle.
draw_wireframe_circle(b, x, y, radius, color) ==
    DrawAll(b, draw_wireframe_circle_points(x, y, radius), color)

\* The points the four draw_line calls of each iteration of
\* draw_filled_circle pass to draw, from the loop state c on.
RECURSIVE FilledCircleLoop(_, _, _)
FilledCircleLoop(x, y, c) ==
    IF ~(c.y0 >= c.x0) THEN <<>>
    ELSE draw_line_points(x - c.x0, y - c.y0, x + c.x0, y - c.y0)
         \o draw_line_points(x - c.y0, y - c.x0, x + c.y0, y - c.x0)
         \o draw_line_points(x - c.y0, y + c.x0, x + c.y0, y + c.x0)
         \o draw_line_points(x - c.x0, y + c.y0, x + c.x0, y + c.y0)
         \o FilledCircleLoop(x, y, CircleStep(c))

draw_filled_circle_points(x, y, radius) ==
    FilledCircleLoop(x, y, CircleStart(radius))

\* Renderer::draw_filled_circle.
draw_filled_circle(b, x, y, radius, color) ==
    DrawAll(b, draw_filled_circle_points(x, y, radius), color)

(***************************************************************************)
(* Values of the variables a specification does not use.                   *)
(***************************************************************************)
Idle == "idle"

BlendIdle == blend = Idle
WalkerIdle == walker = Idle
RendererIdle ==
    /\ cfg = Idle
    /\ buffer = Idle
    /\ prev = Idle
    /\ last = Idle
    /\ ndraw = 0
TriIdle == tri = Idle
InputIdle == input = Idle
CircleIdle == circle = Idle
AppIdle == app = Idle

(***************************************************************************)
(* SpecBlend: Color::linear_blend applied to a source and a destination.   *)
(***************************************************************************)
MaxLow == 3

\* Channel values next to both ends of the u8 range and around its middle.
ChanSamples ==
    (0..MaxLow) \cup {127, 128} \cup ((U8Max - MaxLow)..U8Max)

\* 65 is the lowest alpha at which blending a value with itself changes it.
AlphaSamples == {0, MaxLow, 65, 128, U8Max - MaxLow, U8Max}

\* Every channel value 0..255 meets every sample, as source and as
\* destination, and the three channels of one colour differ.
BlendInit ==
    /\ \E s \in 0..U8Max, d \in 0..U8Max, a \in AlphaSamples, da \in {0, U8Max} :
          /\ s \in ChanSamples \/ d \in ChanSamples
          /\ blend = [src |-> rgba(s, U8Max - s, d, a),
                      dst |-> rgba(d, U8Max - d, s, da),
                      out |-> None]
    /\ WalkerIdle /\ RendererIdle /\ TriIdle /\ InputIdle /\ CircleIdle /\ AppIdle

ApplyBlend ==
    /\ blend.out = None
    /\ blend' = [blend EXCEPT !.out = linear_blend(blend.src, blend.dst)]
    /\ UNCHANGED <<walker, cfg, buffer, prev, last, ndraw, tri, input, circle, app>>

BlendNext == ApplyBlend

SpecBlend == BlendInit /\ [][BlendNext]_vars

(***************************************************************************)
(* SpecPack: a Color packed into a u32 as put_pixel stores it, and the     *)
(* word unpacked as put_pixel reads it back.                               *)
(***************************************************************************)
ByteSamples == {0, 128, U8Max}

\* Every byte value 0..255 in each of the four channels, next to the samples
\* in the other three.
PackInit ==
    /\ \E v \in 0..U8Max, x \in ByteSamples, y \in ByteSamples, z \in ByteSamples :
          \E color \in {rgba(v, x, y, z), rgba(x, v, y, z),
                        rgba(x, y, v, z), rgba(x, y, z, v)} :
              blend = [color |-> color, word |-> None, back |-> None]
    /\ WalkerIdle /\ RendererIdle /\ TriIdle /\ InputIdle /\ CircleIdle /\ AppIdle

\* `.into()` of put_pixel's last line.
Pack ==
    /\ blend.word = None
    /\ blend' = [blend EXCEPT !.word = ColorToU32(blend.color)]
    /\ UNCHANGED <<walker, cfg, buffer, prev, last, ndraw, tri, input, circle, app>>

\* The shifts and masks of put_pixel on the stored word.
Unpack ==
    /\ blend.word # None
    /\ blend.back = None
    /\ blend' = [blend EXCEPT !.back = UnpackU32(blend.word)]
    /\ UNCHANGED <<walker, cfg, buffer, prev, last, ndraw, tri, input, circle, app>>

PackNext == Pack \/ Unpack

SpecPack == PackInit /\ [][PackNext]_vars

(***************************************************************************)
(* SpecLine: a BresenhamLine between two lattice points, called until and  *)
(* after it is exhausted.                                                  *)
(***************************************************************************)
MaxCoord == 4

NotCalled == <<-1>>

LineInit ==
    /\ \E x0 \in 0..MaxCoord, y0 \in 0..MaxCoord, x1 \in 0..MaxCoord, y1 \in 0..MaxCoord :
          walker = [line |-> BresenhamNew(x0, y0, x1, y1),
                    from |-> <<x0, y0>>, to |-> <<x1, y1>>,
                    yielded |-> <<>>, ret |-> NotCalled]
    /\ BlendIdle /\ RendererIdle /\ TriIdle /\ InputIdle /\ CircleIdle /\ AppIdle

\* One call of next() on the walker.
LineNext ==
    /\ LET r == BresenhamNext(walker.line)
       IN  walker' = [walker EXCEPT
                        !.line = r.line,
                        !.yielded = IF r.item = None THEN @ ELSE Append(@, r.item),
                        !.ret = r.item]
    /\ UNCHANGED <<blend, cfg, buffer, prev, last, ndraw, tri, input, circle, app>>

SpecLine == LineInit /\ [][LineNext]_vars

(***************************************************************************)
(* Spec: a Renderer under clear, put_pixel and draw.                       *)
(***************************************************************************)
MaxRadius == 3
MaxDraws == 1

\* The window of SpecShape and SpecTri: wide and high enough for an unclipped
\* circle of radius MaxRadius, and not square.
Width == 2 * MaxRadius + 3
Height == 2 * MaxRadius + 2

PixelSizes == {<<1, 1>>, <<4, 4>>, <<2, 3>>}

\* ApparatusSettings width and height of Spec, in virtual pixels.
ScreenSize == <<3, 2>>

BLACK == rgba(0, 0, 0, 255)
WHITE == rgba(255, 255, 255, 255)
HalfRed == rgba(255, 0, 0, 128)
FaintGreen == rgba(10, 200, 30, 3)

ClearColors == {BLACK, HalfRed}
DrawColors == {WHITE, HalfRed, FaintGreen}

\* Renderer::new after FrameBuffer::new, as Apparatus::new calls them with
\* the window's width and height.
RendererNew(width, height, pixel_width, pixel_height) ==
    /\ cfg = [width |-> width, height |-> height,
              pixel_width |-> pixel_width, pixel_height |-> pixel_height]
    /\ buffer = FrameBufferNew(width, height)
    /\ prev = FrameBufferNew(width, height)
    /\ last = [op |-> "new", args |-> <<>>, color |-> None]
    /\ ndraw = 0

\* Apparatus::new: the window is the screen scaled by the virtual pixel.
Init ==
    /\ \E size \in PixelSizes :
          RendererNew(ScreenSize[1] * size[1], ScreenSize[2] * size[2], size[1], size[2])
    /\ BlendIdle /\ WalkerIdle /\ TriIdle /\ InputIdle /\ CircleIdle /\ AppIdle

\* The model's bound on the drawing operations between two clears.
MayDraw == ndraw < MaxDraws

\* What every drawing operation records: the buffer it found and its call.
Drawn(op, args, color) ==
    /\ ndraw' = ndraw + 1
    /\ prev' = buffer
    /\ last' = [op |-> op, args |-> args, color |-> color]
    /\ UNCHANGED <<cfg, blend, walker, tri, input, circle, app>>

Clear ==
    \E color \in ClearColors :
        /\ buffer' = clear(color)
        /\ prev' = clear(color)
        /\ last' = [op |-> "clear", args |-> <<>>, color |-> color]
        /\ ndraw' = 0
        /\ UNCHANGED <<cfg, blend, walker, tri, input, circle, app>>

PutPixel ==
    /\ MayDraw
    /\ \E x \in {-1, 0, cfg.width - 1, cfg.width},
          y \in {0, 1, cfg.height, cfg.height + 1},
          color \in DrawColors :
        /\ buffer' = put_pixel(buffer, x, y, color)
        /\ Drawn("put_pixel", <<x, y>>, color)

Draw ==
    /\ MayDraw
    /\ \E x \in {-1, 0, 1, ScreenSize[1]},
          y \in {-1, 0, 1, ScreenSize[2], ScreenSize[2] + 1},
          color \in DrawColors :
        /\ buffer' = draw(buffer, x, y, color)
        /\ Drawn("draw", <<x, y>>, color)

Next == Clear \/ PutPixel \/ Draw

Spec == Init /\ [][Next]_vars

(***************************************************************************)
(* SpecTwice: Spec, and the first put_pixel or draw on a blank buffer      *)
(* called a second time with the same arguments.                          *)
(***************************************************************************)
\* The second of two equal calls.  prev stays the buffer the first call found.
Again(op) ==
    /\ last.op = op
    /\ ndraw = 1
    /\ ndraw' = ndraw + 1
    /\ last' = [last EXCEPT !.op = op \o "_again"]
    /\ UNCHANGED <<cfg, prev, blend, walker, tri, input, circle, app>>

PutPixelAgain ==
    /\ Again("put_pixel")
    /\ buffer' = put_pixel(buffer, last.args[1], last.args[2], last.color)

DrawAgain ==
    /\ Again("draw")
    /\ buffer' = draw(buffer, last.args[1], last.args[2], last.color)

TwiceNext == Clear \/ PutPixel \/ Draw \/ PutPixelAgain \/ DrawAgain

SpecTwice == Init /\ [][TwiceNext]_vars

(***************************************************************************)
(* SpecShape: a Renderer with 1x1 virtual pixels under clear, draw_line,   *)
(* draw_filled_rectangle, draw_wireframe_circle and draw_filled_circle.    *)
(***************************************************************************)
ShapeInit ==
    /\ RendererNew(Width, Height, 1, 1)
    /\ BlendIdle /\ WalkerIdle /\ TriIdle /\ InputIdle /\ CircleIdle /\ AppIdle

ShapeColors == {WHITE, HalfRed}

LineEnds == {<<0, 0>>, <<4, 4>>, <<Width + 1, -2>>}

RectArgs ==
    {<<0, 0, 2, 2>>, <<2, 2, -2, -2>>, <<1, 2, 3, 1>>, <<4, 3, -3, -1>>,
     <<Width - 1, Height - 1, 3, 3>>}

\* One centre that leaves every circle of the model unclipped, one that does not.
CircleCentres == {<<MaxRadius, MaxRadius + 1>>, <<1, 1>>}

DrawLine ==
    /\ MayDraw
    /\ \E p \in LineEnds, q \in LineEnds, color \in ShapeColors :
        /\ buffer' = draw_line(buffer, p[1], p[2], q[1], q[2], color)
        /\ Drawn("draw_line", <<p[1], p[2], q[1], q[2]>>, color)

DrawFilledRectangle ==
    /\ MayDraw
    /\ \E r \in RectArgs, color \in ShapeColors :
        /\ buffer' = draw_filled_rectangle(buffer, r[1], r[2], r[3], r[4], color)
        /\ Drawn("draw_filled_rectangle", r, color)

DrawWireframeCircle ==
    /\ MayDraw
    /\ \E c \in CircleCentres, radius \in -1..MaxRadius, color \in ShapeColors :
        /\ buffer' = draw_wireframe_circle(buffer, c[1], c[2], radius, color)
        /\ Drawn("draw_wireframe_circle", <<c[1], c[2], radius>>, color)

DrawFilledCircle ==
    /\ MayDraw
    /\ \E c \in CircleCentres, radius \in -1..MaxRadius, color \in ShapeColors :
        /\ buffer' = draw_filled_circle(buffer, c[1], c[2], radius, color)
        /\ Drawn("draw_filled_circle", <<c[1], c[2], radius>>, color)

ShapeNext ==
    Clear \/ DrawLine \/ DrawFilledRectangle \/ DrawWireframeCircle \/ DrawFilledCircle

SpecShape == ShapeInit /\ [][ShapeNext]_vars

(***************************************************************************)
(* SpecTri: one call of draw_filled_triangle, a step for each call of      *)
(* fill_inner_triangle and for each exit of a loop.  The vertices are      *)
(* <<x0, y0, x1, y1, x2, y2>>, lattice points of the screen.               *)
(***************************************************************************)
\* The three conditional swaps that order the vertices by y.
\* The sort with a first swap that exchanges the y values only.
SortVerticesSwapsYOnly(v) ==
    LET a == IF v[4] < v[2] THEN <<v[1], v[4], v[3], v[2], v[5], v[6]>> ELSE v
        b == IF a[6] < a[2] THEN <<a[5], a[6], a[3], a[4], a[1], a[2]>> ELSE a
    IN  IF b[6] < b[4] THEN <<b[1], b[2], b[5], b[6], b[3], b[4]>> ELSE b

SortVertices(v) ==
    LET a == IF v[4] < v[2] THEN <<v[3], v[4], v[1], v[2], v[5], v[6]>> ELSE v
        b == IF a[6] < a[2] THEN <<a[5], a[6], a[3], a[4], a[1], a[2]>> ELSE a
    IN  IF b[6] < b[4] THEN <<b[1], b[2], b[5], b[6], b[3], b[4]>> ELSE b

\* `NaN as u32`: the cast saturates, and gives 0 for NaN.
NaNAsU32 == 0

\* x3 = x0 + ((y1 - y0) / (y2 - y0)) * (x2 - x0), then `x3 as u32`, for
\* sorted vertices.  With y2 = y0 the quotient is 0.0 / 0.0, a NaN that the
\* product and the sum keep.  The differences of lattice coordinates are
\* exact; the product has the sign of x2 - x0 and is at most x0 when negative.
SplitX3(v) ==
    IF v[6] = v[2] THEN NaNAsU32
    ELSE LET ratio == FDiv(ToF32(v[4] - v[2]), ToF32(v[6] - v[2]))
             part == FMul(ratio, ToF32(Abs(v[5] - v[1])))
         IN  FTrunc(IF v[5] >= v[1] THEN FAdd(ToF32(v[1]), part)
                                     ELSE FSub(ToF32(v[1]), part))

\* A tracker that takes the next point of its line, on a new row or not.
RECURSIVE AdvanceTrackerAnyPoint(_, _)
AdvanceTrackerAnyPoint(line, current) ==
    LET r == BresenhamNext(line)
    IN  IF r.item = None THEN [line |-> r.line, current |-> current]
        ELSE IF r.item[2] >= current[2] THEN [line |-> r.line, current |-> r.item]
        ELSE AdvanceTrackerAnyPoint(r.line, current)

\* `for (x, y) in line.by_ref() { if y > current_y { current = (x, y); break } }`
RECURSIVE AdvanceTracker(_, _)
AdvanceTracker(line, current) ==
    LET r == BresenhamNext(line)
    IN  IF r.item = None THEN [line |-> r.line, current |-> current]
        ELSE IF r.item[2] > current[2] THEN [line |-> r.line, current |-> r.item]
        ELSE AdvanceTracker(r.line, current)

\* The locals of fill_flat_bottom_triangle(x0, y0, x1, y1, x2, y2) before
\* its loop; left_end and right_end are the y the loop compares with.
fill_flat_bottom_triangle(x0, y0, x1, y1, x2, y2) ==
    [left |-> BresenhamNew(x0, y0, x2, y2),
     right |-> BresenhamNew(x1, y1, x2, y2),
     current_left |-> <<x0, y0>>,
     current_right |-> <<x1, y1>>,
     left_end |-> y2,
     right_end |-> y2]

\* The locals of fill_flat_top_triangle(x0, y0, x1, y1, x2, y2) before its loop.
fill_flat_top_triangle(x0, y0, x1, y1, x2, y2) ==
    [left |-> BresenhamNew(x0, y0, x1, y1),
     right |-> BresenhamNew(x0, y0, x2, y2),
     current_left |-> <<x0, y0>>,
     current_right |-> <<x0, y0>>,
     left_end |-> y1,
     right_end |-> y2]

\* A loop condition with <= for <.
LoopContinuesInclusive(f) ==
    f.current_left[2] <= f.left_end /\ f.current_right[2] <= f.right_end

\* A loop condition that stops one row early.
LoopContinuesBelowLastRow(f) ==
    f.current_left[2] + 1 < f.left_end /\ f.current_right[2] + 1 < f.right_end

\* `while current_left_y < .. && current_right_y < ..` of either fill.
LoopContinues(f) ==
    f.current_left[2] < f.left_end /\ f.current_right[2] < f.right_end

\* The trackers after fill_inner_triangle: left advanced, then right.
fill_inner_triangle(f) ==
    LET l == AdvanceTracker(f.left, f.current_left)
        r == AdvanceTracker(f.right, f.current_right)
    IN  [f EXCEPT !.left = l.line, !.current_left = l.current,
                  !.right = r.line, !.current_right = r.current]

\* The calls of fill_inner_triangle the model follows in one call of
\* draw_filled_triangle; the two loops of a triangle of the model make at
\* most MaxCoord of them.
MaxCalls == 2 * MaxCoord + 2

Lattice == (0..MaxCoord) \X (0..MaxCoord)

Collinear(v) ==
    (v[3] - v[1]) * (v[6] - v[2]) = (v[5] - v[1]) * (v[4] - v[2])

\* Triangles that are not degenerate, next to the collinear ones.
ProperTriangles == {<<0, 0, MaxCoord, 1, 2, MaxCoord>>, <<1, 3, 3, 3, 0, 0>>}

TriInit ==
    /\ RendererNew(Width, Height, 1, 1)
    /\ \E p \in Lattice, q \in Lattice, r \in Lattice :
          LET v == <<p[1], p[2], q[1], q[2], r[1], r[2]>>
          IN  /\ Collinear(v) \/ v \in ProperTriangles
              /\ tri = [pc |-> "call", v |-> v, color |-> WHITE, calls |-> 0]
    /\ BlendIdle /\ WalkerIdle /\ InputIdle /\ CircleIdle /\ AppIdle

\* draw_filled_triangle up to the first loop: the sort, x3, the casts to
\* u32, and the locals of fill_flat_bottom_triangle(x1, y1, x3, y1, x2, y2).
TriStart ==
    /\ tri.pc = "call"
    /\ LET s == SortVertices(tri.v)
           x3 == SplitX3(s)
       IN  tri' = [pc |-> "bottom", v |-> tri.v, color |-> tri.color, calls |-> 0,
                   s |-> s, x3 |-> x3, spans |-> <<>>,
                   fill |-> fill_flat_bottom_triangle(s[3], s[4], x3, s[4], s[5], s[6])]
    /\ prev' = buffer
    /\ last' = [op |-> "draw_filled_triangle", args |-> tri.v, color |-> tri.color]
    /\ ndraw' = ndraw + 1
    /\ UNCHANGED <<blend, walker, cfg, buffer, input, circle, app>>

\* One iteration of the loop a fill is in: fill_inner_triangle, which draws
\* the line between the trackers and advances them.  spans keeps the
\* arguments of every draw_line of the call.
FillStep(pc) ==
    /\ tri.pc = pc
    /\ LoopContinues(tri.fill)
    /\ tri.calls < MaxCalls
    /\ tri' = [tri EXCEPT !.fill = fill_inner_triangle(@), !.calls = @ + 1,
                           !.spans = Append(@, tri.fill.current_left \o tri.fill.current_right)]
    /\ buffer' = draw_line(buffer, tri.fill.current_left[1], tri.fill.current_left[2],
                           tri.fill.current_right[1], tri.fill.current_right[2], tri.color)
    /\ UNCHANGED <<blend, walker, cfg, prev, last, ndraw, input, circle, app>>

FillBottomStep == FillStep("bottom")

\* The end of fill_flat_bottom_triangle, and the locals of
\* fill_flat_top_triangle(x0, y0, x1, y1, x3, y1).
FillBottomExit ==
    /\ tri.pc = "bottom"
    /\ ~LoopContinues(tri.fill)
    /\ tri' = [tri EXCEPT
                 !.pc = "top",
                 !.fill = fill_flat_top_triangle(tri.s[1], tri.s[2], tri.s[3], tri.s[4],
                                                 tri.x3, tri.s[4])]
    /\ UNCHANGED <<blend, walker, cfg, buffer, prev, last, ndraw, input, circle, app>>

FillTopStep == FillStep("top")

\* The end of fill_flat_top_triangle and of draw_filled_triangle.
FillTopExit ==
    /\ tri.pc = "top"
    /\ ~LoopContinues(tri.fill)
    /\ tri' = [tri EXCEPT !.pc = "done"]
    /\ UNCHANGED <<blend, walker, cfg, buffer, prev, last, ndraw, input, circle, app>>

TriNext == TriStart \/ FillBottomStep \/ FillBottomExit \/ FillTopStep \/ FillTopExit

\* No step of TriNext is possible: the call has returned, or the model's
\* bound on the calls of fill_inner_triangle stops a loop.
Halted ==
    \/ tri.pc = "done"
    \/ /\ tri.pc \in {"bottom", "top"}
       /\ LoopContinues(tri.fill)
       /\ tri.calls >= MaxCalls

\* The call runs on until it returns, no step of it waits for anything: the
\* weak fairness WF_vars(TriNext), with ENABLED <<TriNext>>_vars written out
\* as ~Halted.
TriFairness == []<>Halted \/ []<><<TriNext>>_vars

SpecTri == TriInit /\ [][TriNext]_vars /\ TriFairness

(***************************************************************************)
(* SpecInput: an Input under process_input, the window's key, button and   *)
(* mouse readings chosen freely at each call.                              *)
(***************************************************************************)
\* Two of the 41 variants of Key that process_keys reads, each in the same way.
Keys == {"Num1", "A"}

MouseButtons == {"Left", "Middle", "Right"}

\* What get_mouse_pos can return in a window Height high.
MousePositions == {<<0, 0>>, <<3, Height>>}

ButtonStateNew(is_down, was_down) == [is_down |-> is_down, was_down |-> was_down]

\* HashMap::new().
HashMapNew == [k \in {} |-> ButtonStateNew(FALSE, FALSE)]

\* Input::new: no key and no button has a recorded state.
InputNew ==
    [keys |-> HashMapNew, mouse |-> [x |-> 0, y |-> 0, buttons |-> HashMapNew]]

\* The state built with the previous was_down for the previous is_down.
get_button_state_from_was_down(k, down, previous) ==
    ButtonStateNew(k \in down,
                   IF k \in DOMAIN previous THEN previous[k].was_down ELSE FALSE)

\* get_key_state and get_mouse_button_state: down is the set the window
\* reports as down, previous the map of the previous call.
get_button_state(k, down, previous) ==
    ButtonStateNew(k \in down,
                   IF k \in DOMAIN previous THEN previous[k].is_down ELSE FALSE)

process_keys(down, previous_keys) ==
    [key \in Keys |-> get_button_state(key, down, previous_keys)]

process_mouse(pos, window_height, down, previous_buttons) ==
    [x |-> pos[1],
     y |-> window_height - pos[2],
     buttons |-> [button \in MouseButtons |->
                     get_button_state(button, down, previous_buttons)]]

\* is_key_held that tests is_down alone.
is_key_held_ignoring_was_down(key) ==
    IF key \in DOMAIN input.keys THEN input.keys[key].is_down ELSE FALSE

is_key_pressed(key) ==
    IF key \in DOMAIN input.keys
    THEN input.keys[key].is_down /\ ~input.keys[key].was_down
    ELSE FALSE

is_key_held(key) ==
    IF key \in DOMAIN input.keys
    THEN input.keys[key].is_down /\ input.keys[key].was_down
    ELSE FALSE

was_key_released(key) ==
    IF key \in DOMAIN input.keys
    THEN ~input.keys[key].is_down /\ input.keys[key].was_down
    ELSE FALSE

is_mouse_button_held(button) ==
    IF button \in DOMAIN input.mouse.buttons
    THEN input.mouse.buttons[button].is_down /\ input.mouse.buttons[button].was_down
    ELSE FALSE

was_mouse_button_released(button) ==
    IF button \in DOMAIN input.mouse.buttons
    THEN ~input.mouse.buttons[button].is_down /\ input.mouse.buttons[button].was_down
    ELSE FALSE

InputInit ==
    /\ input = InputNew
    /\ BlendIdle /\ WalkerIdle /\ RendererIdle /\ TriIdle /\ CircleIdle /\ AppIdle

\* Input::process_input.
ProcessInput ==
    /\ \E keys_down \in SUBSET Keys, buttons_down \in SUBSET MouseButtons,
          pos \in MousePositions :
          input' = [keys |-> process_keys(keys_down, input.keys),
                    mouse |-> process_mouse(pos, Height, buttons_down,
                                            input.mouse.buttons)]
    /\ UNCHANGED <<blend, walker, cfg, buffer, prev, last, ndraw, tri, circle, app>>

InputNext == ProcessInput

SpecInput == InputInit /\ [][InputNext]_vars

(***************************************************************************)
(* SpecSprite: a Renderer with 1x1 virtual pixels under clear and          *)
(* draw_sprite.                                                            *)
(***************************************************************************)
\* A Sprite: width, height and the rgba8 bytes of its pixels, row by row.
SpriteNew(width, height, data) == [width |-> width, height |-> height, data |-> data]

\* 2x2: opaque white, half-transparent red / transparent green, opaque blue.
SpriteSquare ==
    SpriteNew(2, 2, <<255, 255, 255, 255,   255, 0, 0, 128,
                      10, 200, 30, 0,       0, 0, 255, 255>>)

\* 1x3, a column: opaque white, transparent green, half-transparent red.
SpriteColumn ==
    SpriteNew(1, 3, <<255, 255, 255, 255,   10, 200, 30, 0,   255, 0, 0, 128>>)

\* 3x1, a row: transparent black, opaque blue, opaque white.
SpriteRow ==
    SpriteNew(3, 1, <<0, 0, 0, 0,   0, 0, 255, 255,   255, 255, 255, 255>>)

Sprites == {SpriteSquare, SpriteColumn, SpriteRow}

\* Positions inside the window, at its edges and outside it.
SpritePositions == {-1, 0, 2, Width - 1} \X {-1, 0, 3, Height - 1}

\* The colour draw_sprite reads at column sprite_x, row sprite_y of the data.
SpritePixel(sprite, sprite_x, sprite_y) ==
    LET offset == (sprite_y * sprite.width + sprite_x) * 4
    IN  rgba(sprite.data[offset + 1], sprite.data[offset + 2],
             sprite.data[offset + 3], sprite.data[offset + 4])

\* draw_sprite without the vertical flip: y + sprite_y.
draw_sprite_calls_no_flip(x, y, sprite) ==
    [k \in 1..(sprite.width * sprite.height) |->
        LET sprite_x == (k - 1) % sprite.width
            sprite_y == (k - 1) \div sprite.width
        IN  <<x + sprite_x, y + sprite_y, SpritePixel(sprite, sprite_x, sprite_y)>>]

\* The calls of draw that draw_sprite makes, in order: x, y and colour.
draw_sprite_calls(x, y, sprite) ==
    [k \in 1..(sprite.width * sprite.height) |->
        LET sprite_x == (k - 1) % sprite.width
            sprite_y == (k - 1) \div sprite.width
        IN  <<x + sprite_x, y + (sprite.height - sprite_y),
              SpritePixel(sprite, sprite_x, sprite_y)>>]

\* The buffer after the calls lo .. hi of a sequence of draw calls.
RECURSIVE DrawCalls(_, _, _, _)
DrawCalls(b, calls, lo, hi) ==
    IF lo > hi THEN b
    ELSE IF lo = hi THEN draw(b, calls[lo][1], calls[lo][2], calls[lo][3])
    ELSE LET first == DrawCalls(b, calls, lo, (lo + hi) \div 2)
         IN  IF first = <<>> THEN first
             ELSE DrawCalls(first, calls, (lo + hi) \div 2 + 1, hi)

\* Renderer::draw_sprite.
draw_sprite(b, x, y, sprite) ==
    DrawCalls(b, draw_sprite_calls(x, y, sprite), 1, sprite.width * sprite.height)

SpriteInit ==
    /\ RendererNew(Width, Height, 1, 1)
    /\ BlendIdle /\ WalkerIdle /\ TriIdle /\ InputIdle /\ CircleIdle /\ AppIdle

DrawSprite ==
    /\ MayDraw
    /\ \E p \in SpritePositions, sprite \in Sprites :
        /\ buffer' = draw_sprite(buffer, p[1], p[2], sprite)
        /\ Drawn("draw_sprite", <<p[1], p[2], sprite>>, None)

SpriteNext == Clear \/ DrawSprite

SpecSprite == SpriteInit /\ [][SpriteNext]_vars

(***************************************************************************)
(* SpecCircle: one call of draw_wireframe_circle or draw_filled_circle,    *)
(* one step per iteration of its loop.                                     *)
(***************************************************************************)
\* The points the eight draw calls of one iteration of
\* draw_wireframe_circle pass to draw.
WireframeCircleBody(x, y, c) ==
    << <<x + c.x0, y + c.y0>>, <<x - c.x0, y + c.y0>>,
       <<x + c.x0, y - c.y0>>, <<x - c.x0, y - c.y0>>,
       <<x + c.y0, y + c.x0>>, <<x - c.y0, y + c.x0>>,
       <<x + c.y0, y - c.x0>>, <<x - c.y0, y - c.x0>> >>

\* The points the four draw_line calls of one iteration of
\* draw_filled_circle pass to draw.
FilledCircleBody(x, y, c) ==
    draw_line_points(x - c.x0, y - c.y0, x + c.x0, y - c.y0)
    \o draw_line_points(x - c.y0, y - c.x0, x + c.y0, y - c.x0)
    \o draw_line_points(x - c.y0, y + c.x0, x + c.y0, y + c.x0)
    \o draw_line_points(x - c.x0, y + c.y0, x + c.x0, y + c.y0)

CircleBody(kind, x, y, c) ==
    IF kind = "draw_wireframe_circle" THEN WireframeCircleBody(x, y, c)
    ELSE FilledCircleBody(x, y, c)

CircleKinds == {"draw_wireframe_circle", "draw_filled_circle"}

\* The radii of the model: two negative ones, 0, and 1 .. MaxRadius.
Radii == (-2)..MaxRadius

\* The iterations the model follows in one call; a loop of the model makes
\* at most MaxRadius + 1 of them.
MaxIterations == MaxRadius + 2

\* A cleared buffer and the arguments of the call to come.
CircleInit ==
    /\ \E clear_color \in ClearColors :
          /\ cfg = [width |-> Width, height |-> Height, pixel_width |-> 1, pixel_height |-> 1]
          /\ buffer = clear(clear_color)
          /\ prev = clear(clear_color)
          /\ last = [op |-> "clear", args |-> <<>>, color |-> clear_color]
          /\ ndraw = 0
    /\ \E kind \in CircleKinds, centre \in CircleCentres, radius \in Radii,
          color \in ShapeColors :
          circle = [pc |-> "call", kind |-> kind, x |-> centre[1], y |-> centre[2],
                    radius |-> radius, color |-> color]
    /\ BlendIdle /\ WalkerIdle /\ TriIdle /\ InputIdle /\ AppIdle

\* The call up to its loop: x0 = 0, y0 = radius, d = 3 - 2 * radius.
CircleCall ==
    /\ circle.pc = "call"
    /\ circle' = [pc |-> "loop", kind |-> circle.kind, x |-> circle.x, y |-> circle.y,
                  radius |-> circle.radius, color |-> circle.color,
                  c |-> CircleStart(circle.radius), iterations |-> 0, draws |-> <<>>]
    /\ prev' = buffer
    /\ last' = [op |-> circle.kind, args |-> <<circle.x, circle.y, circle.radius>>,
                color |-> circle.color]
    /\ ndraw' = ndraw + 1
    /\ UNCHANGED <<blend, walker, cfg, buffer, tri, input, app>>

\* `while y0 >= x0`.
CircleLoopContinues(c) == c.y0 >= c.x0

\* One iteration of the loop: its draws, then the update of x0, y0 and d.
\* draws keeps every point passed to draw.
CircleIteration ==
    /\ circle.pc = "loop"
    /\ CircleLoopContinues(circle.c)
    /\ circle.iterations < MaxIterations
    /\ buffer' = DrawAll(buffer, CircleBody(circle.kind, circle.x, circle.y, circle.c),
                         circle.color)
    /\ circle' = [circle EXCEPT
                    !.c = CircleStep(@),
                    !.iterations = @ + 1,
                    !.draws = @ \o CircleBody(circle.kind, circle.x, circle.y, circle.c)]
    /\ UNCHANGED <<blend, walker, cfg, prev, last, ndraw, tri, input, app>>

\* The end of the loop and of the call.
CircleReturn ==
    /\ circle.pc = "loop"
    /\ ~CircleLoopContinues(circle.c)
    /\ circle' = [circle EXCEPT !.pc = "done"]
    /\ UNCHANGED <<blend, walker, cfg, buffer, prev, last, ndraw, tri, input, app>>

CircleNext == CircleCall \/ CircleIteration \/ CircleReturn

\* No step of CircleNext is possible: the call has returned, or the model's
\* bound on the iterations stops the loop.
CircleHalted ==
    \/ circle.pc = "done"
    \/ /\ circle.pc = "loop"
       /\ CircleLoopContinues(circle.c)
       /\ circle.iterations >= MaxIterations

\* The call runs on until it returns: the weak fairness WF_vars(CircleNext),
\* with ENABLED <<CircleNext>>_vars written out as ~CircleHalted.
CircleFairness == []<>CircleHalted \/ []<><<CircleNext>>_vars

SpecCircle == CircleInit /\ [][CircleNext]_vars /\ CircleFairness

(***************************************************************************)
(* SpecRun: Apparatus::run, one step per statement of its loop that the    *)
(* game or the window can observe.  The window decides should_close, the   *)
(* key and button readings and the result of display; the game's on_create *)
(* and on_update are calls the model records without following them, and   *)
(* the frame pacing (clock, sleep) and the debug statistics between        *)
(* on_update and display are not modelled.                                 *)
(***************************************************************************)
\* The frames the model follows in one run.
MaxFrames == 2

\* Where run goes after `if self.window.should_close() { self.running = false; }`
\* with a break in place of the assignment.
AfterShouldCloseBreaks(close) == IF close THEN "while" ELSE "process_input"

\* Where run goes after `if self.window.should_close() { self.running = false; }`.
AfterShouldClose(close) == "process_input"

\* Apparatus::new: running = false, a new Renderer and a new Input.
RunInit ==
    /\ RendererNew(Width, Height, 1, 1)
    /\ input = InputNew
    /\ app = [pc |-> "on_create", running |-> FALSE, closing |-> FALSE,
              events |-> <<>>, frames |-> 0, result |-> None]
    /\ BlendIdle /\ WalkerIdle /\ TriIdle /\ CircleIdle

\* `let mut game = G::on_create(&self)?; self.clock.tick(); self.running = true;`
OnCreate ==
    /\ app.pc = "on_create"
    /\ \E created \in BOOLEAN :
          app' = IF created
                 THEN [app EXCEPT !.pc = "while", !.running = TRUE]
                 ELSE [app EXCEPT !.pc = "done", !.result = "Err(on_create)"]
    /\ UNCHANGED <<blend, walker, cfg, buffer, prev, last, ndraw, tri, input, circle>>

\* `while self.running`: the next iteration starts, or run returns Ok(()).
While ==
    /\ app.pc = "while"
    /\ app.running => app.frames < MaxFrames
    /\ app' = IF app.running
              THEN [app EXCEPT !.pc = "should_close", !.events = <<>>, !.closing = FALSE]
              ELSE [app EXCEPT !.pc = "done", !.result = "Ok"]
    /\ UNCHANGED <<blend, walker, cfg, buffer, prev, last, ndraw, tri, input, circle>>

\* `if self.window.should_close() { self.running = false; }`
ShouldClose ==
    /\ app.pc = "should_close"
    /\ \E close \in BOOLEAN :
          app' = [app EXCEPT !.pc = AfterShouldClose(close),
                             !.running = IF close THEN FALSE ELSE @,
                             !.closing = close]
    /\ UNCHANGED <<blend, walker, cfg, buffer, prev, last, ndraw, tri, input, circle>>

\* `self.input.process_input(&self.window);`
RunProcessInput ==
    /\ app.pc = "process_input"
    /\ \E keys_down \in SUBSET Keys, buttons_down \in SUBSET MouseButtons,
          pos \in MousePositions :
          input' = [keys |-> process_keys(keys_down, input.keys),
                    mouse |-> process_mouse(pos, Height, buttons_down,
                                            input.mouse.buttons)]
    /\ app' = [app EXCEPT !.pc = "on_update", !.events = Append(@, "process_input")]
    /\ UNCHANGED <<blend, walker, cfg, buffer, prev, last, ndraw, tri, circle>>

\* `game.on_update(&mut self);`
OnUpdate ==
    /\ app.pc = "on_update"
    /\ app' = [app EXCEPT !.pc = "display", !.events = Append(@, "on_update")]
    /\ UNCHANGED <<blend, walker, cfg, buffer, prev, last, ndraw, tri, input, circle>>

\* `self.window.display(self.renderer.buffer())?;`
Display ==
    /\ app.pc = "display"
    /\ \E displayed \in BOOLEAN :
          app' = IF displayed
                 THEN [app EXCEPT !.pc = "while", !.events = Append(@, "display"),
                                  !.frames = @ + 1]
                 ELSE [app EXCEPT !.pc = "done", !.events = Append(@, "display"),
                                  !.frames = @ + 1, !.result = "Err(Window)"]
    /\ UNCHANGED <<blend, walker, cfg, buffer, prev, last, ndraw, tri, input, circle>>

RunNext == OnCreate \/ While \/ ShouldClose \/ RunProcessInput \/ OnUpdate \/ Display

SpecRun == RunInit /\ [][RunNext]_vars

(***************************************************************************)
(* Claims about the line walker (SpecLine).                                *)
(***************************************************************************)
Yielded == walker.yielded

LastYielded == Yielded[Len(Yielded)]

\* C1: the points a BresenhamLine yields start with (x0,y0), end with
\* (x1,y1) when the walk is complete, and two consecutive points differ by at
\* most 1 in x and at most 1 in y.
C1_LineConnectsEndpoints ==
    /\ Len(Yielded) >= 1 => Yielded[1] = walker.from
    /\ walker.line.line_complete => (Len(Yielded) >= 1 /\ LastYielded = walker.to)
    /\ walker.ret = None => walker.line.line_complete
    /\ \A i \in 1..(Len(Yielded) - 1) :
          /\ Abs(Yielded[i + 1][1] - Yielded[i][1]) <= 1
          /\ Abs(Yielded[i + 1][2] - Yielded[i][2]) <= 1

\* A complete walk of a steep line that runs left and up, over several rows.
C1_Witness ==
    /\ walker.line.line_complete
    /\ walker.to[1] < walker.from[1]
    /\ walker.to[2] > walker.from[2] + 2
    /\ walker.line.dx # 0
    /\ walker.line.dx < -walker.line.dy
    /\ LastYielded = walker.to

\* C2: the target is yielded exactly once, as the last item, and once
\* line_complete is set every later next() returns None and changes nothing.
C2_TargetOnceThenNone ==
    /\ [](\A i \in 1..Len(Yielded) :
            Yielded[i] = walker.to <=> (walker.line.line_complete /\ i = Len(Yielded)))
    /\ [][walker.line.line_complete =>
            walker' = [walker EXCEPT !.ret = None]]_vars

\* A zero-length line, called again after its single point.
C2_Witness ==
    /\ walker.from = walker.to
    /\ walker.line.line_complete
    /\ walker.ret = None
    /\ Yielded = <<walker.to>>

(***************************************************************************)
(* Claims about linear_blend (SpecBlend).                                  *)
(***************************************************************************)
\* C3: a source with alpha 255 replaces the destination: the result is the
\* source's r, g, b with alpha 255, whatever the destination.
C3_OpaqueSourceReplaces ==
    (blend.out # None /\ ColorA(blend.src) = U8Max) =>
        blend.out = rgba(ColorR(blend.src), ColorG(blend.src), ColorB(blend.src), U8Max)

\* An opaque source blended onto a destination of other channels and alpha 0.
C3_Witness ==
    /\ blend.out # None
    /\ ColorA(blend.src) = U8Max
    /\ ColorA(blend.dst) = 0
    /\ ColorR(blend.src) = 77
    /\ ColorR(blend.dst) = U8Max
    /\ blend.out = blend.src

\* C4: a source with alpha 0 blended onto a destination with alpha 255
\* gives the destination, whatever the source's r, g, b.
C4_TransparentSourceKeeps ==
    (blend.out # None /\ ColorA(blend.src) = 0 /\ ColorA(blend.dst) = U8Max) =>
        blend.out = blend.dst

\* A fully transparent source of other channels blended onto an opaque destination.
C4_Witness ==
    /\ blend.out # None
    /\ ColorA(blend.src) = 0
    /\ ColorA(blend.dst) = U8Max
    /\ ColorR(blend.dst) = 201
    /\ ColorR(blend.src) = 1
    /\ blend.out = blend.dst

(***************************************************************************)
(* Claims about the renderer (Spec and SpecShape).                         *)
(***************************************************************************)
Cells == 0..(cfg.width * cfg.height - 1)

\* The cells the last operation left different from what it found.
Changed == {i \in Cells : VecGet(buffer, i) # VecGet(prev, i)}

\* The last operation found the buffer blank: new, or cleared and not drawn
\* on since.  Every write of the model's colours then changes its cell: the
\* word written has alpha 255 and a channel above 0, while a cell of a new
\* buffer has alpha 0 and a cell of a cleared one has alpha 128 or
\* r = g = b = 0.  So Changed is the set of the cells written.
OnBlank == ndraw = 1

CellsOf(color) == {i \in Cells : VecGet(buffer, i) = ColorToU32(color)}

\* C5: with 1x1 virtual pixels, after clear(BLACK) the call
\* draw_line(0,0,4,4,WHITE) leaves exactly five cells WHITE, those of the
\* logical pixels (0,0), (1,1), (2,2), (3,3), (4,4), and every other cell BLACK.
C5_LineSetsFivePixels ==
    (/\ last.op = "draw_line"
     /\ last.args = <<0, 0, 4, 4>>
     /\ last.color = WHITE
     /\ prev = clear(BLACK)) =>
        /\ Cardinality(CellsOf(WHITE)) = 5
        /\ CellsOf(WHITE) \cup CellsOf(BLACK) = Cells
        /\ \A k \in 1..4 : (cfg.height - k) * cfg.width + k \in CellsOf(WHITE)

\* C6: with 1x1 virtual pixels, draw_filled_rectangle(0,0,2,2,color) on a
\* blank buffer sets exactly nine cells, the 3x3 block of the logical pixels
\* with x and y in 0..2.
C6_RectangleSetsNinePixels ==
    (/\ last.op = "draw_filled_rectangle"
     /\ last.args = <<0, 0, 2, 2>>
     /\ OnBlank) =>
        /\ Cardinality(Changed) = 9
        /\ \A x \in 0..2, y \in 1..2 : (cfg.height - y) * cfg.width + x \in Changed

\* The cells of the physical rectangle [x*pw, (x+1)*pw) x [y*ph, (y+1)*ph),
\* each physical point (px, py) at the cell put_pixel gives it.
BlockCells(x, y) ==
    {(cfg.height - py) * cfg.width + px :
        px \in (x * cfg.pixel_width)..((x + 1) * cfg.pixel_width - 1),
        py \in (y * cfg.pixel_height)..((y + 1) * cfg.pixel_height - 1)}

\* The physical rectangle of the logical (x, y) lies inside the
\* width x height buffer.
BlockInside(x, y) ==
    /\ 0 <= x * cfg.pixel_width
    /\ (x + 1) * cfg.pixel_width <= cfg.width
    /\ 0 <= y * cfg.pixel_height
    /\ (y + 1) * cfg.pixel_height <= cfg.height

\* C7: draw(x,y,color) on a blank buffer, for a logical (x,y) whose block
\* lies inside the buffer, writes exactly the pw*ph cells of the block and
\* leaves every cell outside the block unchanged.
C7_DrawWritesBlock ==
    (/\ last.op = "draw"
     /\ OnBlank
     /\ BlockInside(last.args[1], last.args[2])) =>
        /\ Cardinality(Changed) = cfg.pixel_width * cfg.pixel_height
        /\ Changed = BlockCells(last.args[1], last.args[2])

\* The same for the blocks above the logical row y = 0, which is what the
\* code does: the violations of C7_DrawWritesBlock are all in that row.
C7_DrawWritesBlockAboveRowZero ==
    (/\ last.op = "draw"
     /\ OnBlank
     /\ BlockInside(last.args[1], last.args[2])
     /\ last.args[2] >= 1) =>
        /\ Cardinality(Changed) = cfg.pixel_width * cfg.pixel_height
        /\ Changed = BlockCells(last.args[1], last.args[2])

\* The logical pixel (x, y) is in the buffer and the last operation changed it.
WrittenAt(x, y) ==
    /\ 0 <= x /\ x < cfg.width
    /\ 0 <= cfg.height - y /\ cfg.height - y < cfg.height
    /\ (cfg.height - y) * cfg.width + x \in Changed

\* Nothing of the circle of radius r about (cx, cy) is clipped: every point
\* of its bounding square passes the clamps of draw and draw_line unchanged
\* and the bounds check of put_pixel.
Unclipped(cx, cy, r) ==
    /\ cx - r >= 0 /\ cx + r < cfg.width
    /\ cy + r <= cfg.height
    /\ cfg.height - (cy - r) < cfg.height

\* C8: the pixels written on a blank buffer by draw_wireframe_circle and by
\* draw_filled_circle with radius >= 2 and nothing clipped are the same after
\* a rotation by 90 degrees about the centre: (cx+dx, cy+dy) is written iff
\* (cx-dy, cy+dx) is.
C8_CircleRotationSymmetric ==
    (/\ last.op \in {"draw_wireframe_circle", "draw_filled_circle"}
     /\ OnBlank
     /\ last.args[3] >= 2
     /\ Unclipped(last.args[1], last.args[2], last.args[3])) =>
        \A dx \in (-cfg.width)..cfg.width, dy \in (-cfg.height)..cfg.height :
            WrittenAt(last.args[1] + dx, last.args[2] + dy)
                <=> WrittenAt(last.args[1] - dy, last.args[2] + dx)

\* A filled circle of the largest radius, unclipped, with its leftmost pixel
\* written and a corner of its bounding square not written.
C8_Witness ==
    /\ last.op = "draw_filled_circle"
    /\ last.args[3] = MaxRadius
    /\ Unclipped(last.args[1], last.args[2], last.args[3])
    /\ WrittenAt(last.args[1] - MaxRadius, last.args[2])
    /\ ~WrittenAt(last.args[1] - MaxRadius, last.args[2] - MaxRadius)

\* The wireframe circle of the same case.
C8_WitnessWireframe ==
    /\ last.op = "draw_wireframe_circle"
    /\ last.args[3] = MaxRadius
    /\ Unclipped(last.args[1], last.args[2], last.args[3])
    /\ WrittenAt(last.args[1], last.args[2] - MaxRadius)
    /\ ~WrittenAt(last.args[1], last.args[2])

\* C10: put_pixel(x,y,c) with 0 <= x < width and 0 <= height-y < height
\* replaces the cell at (height-y)*width + x by linear_blend(c, old cell) and
\* leaves every other cell unchanged; with any other coordinates it leaves
\* the whole buffer unchanged.
C10_PutPixelFrame ==
    last.op = "put_pixel" =>
        LET x == last.args[1]
            y == last.args[2]
            idx == (cfg.height - y) * cfg.width + x
        IN  IF 0 <= x /\ x < cfg.width /\ 0 <= cfg.height - y /\ cfg.height - y < cfg.height
            THEN /\ VecGet(buffer, idx) =
                        ColorToU32(linear_blend(last.color, UnpackU32(VecGet(prev, idx))))
                 /\ \A i \in Cells \ {idx} : VecGet(buffer, i) = VecGet(prev, i)
                 /\ Len(buffer) = Len(prev)
            ELSE buffer = prev

\* A translucent pixel written in the top row, at logical y = height, over a
\* cleared translucent buffer.
C10_Witness ==
    /\ last.op = "put_pixel"
    /\ cfg.pixel_width = 4
    /\ last.args = <<cfg.width - 1, cfg.height>>
    /\ last.color = FaintGreen
    /\ prev = clear(HalfRed)
    /\ Changed = {cfg.width - 1}

\* A pixel at logical y = 0, whose row height - 0 is outside the buffer.
C10_WitnessDropped ==
    /\ last.op = "put_pixel"
    /\ last.args = <<0, 0>>
    /\ buffer = prev

(***************************************************************************)
(* Claims about draw_filled_triangle (SpecTri).                            *)
(***************************************************************************)
\* draw_filled_triangle has been called with collinear vertices.
CollinearCall == tri.pc = "call" /\ Collinear(tri.v)

\* draw_filled_triangle has returned.
Returned == tri.pc = "done"

\* C9: draw_filled_triangle with three collinear vertices, those on one
\* row and coincident ones included, terminates without an error: both
\* loops finish, whatever the split-point division gives.
C9_CollinearTriangleTerminates ==
    CollinearCall ~> Returned

\* Neither loop of a triangle makes more calls of fill_inner_triangle than
\* there are rows between its lowest and its highest vertex.
C9_CallsBounded ==
    tri.pc # "call" => tri.calls <= tri.s[6] - tri.s[2]

\* Three distinct vertices on one row, where y2 = y0 and x3 is NaN as u32:
\* the call has returned.
C9_Witness ==
    /\ tri.pc = "done"
    /\ tri.v[2] = tri.v[4] /\ tri.v[4] = tri.v[6]
    /\ tri.v[1] > tri.v[3] /\ tri.v[3] > tri.v[5]
    /\ tri.x3 = NaNAsU32
    /\ tri.calls = 0

\* Three distinct collinear vertices on a slanted line, returned after
\* calls of fill_inner_triangle in both loops.
C9_WitnessSlanted ==
    /\ tri.pc = "done"
    /\ Collinear(tri.v)
    /\ tri.s[2] < tri.s[4] /\ tri.s[4] < tri.s[6]
    /\ tri.s[1] > tri.s[5]
    /\ tri.calls = tri.s[6] - tri.s[2]

(***************************************************************************)
(* Claims about the packed colour (SpecPack).                              *)
(***************************************************************************)
\* C11: a packed Color is the word 0xAARRGGBB, alpha in bits 31..24, red in
\* 23..16, green in 15..8, blue in 7..0, and the unpacking of put_pixel gives
\* back the four channels that were packed.
C11_PackUnpackRoundTrip ==
    /\ blend.word # None =>
          /\ blend.word.hi \div 256 = ColorA(blend.color)
          /\ blend.word.hi % 256 = ColorR(blend.color)
          /\ blend.word.lo \div 256 = ColorG(blend.color)
          /\ blend.word.lo % 256 = ColorB(blend.color)
    /\ blend.back # None =>
          /\ ColorR(blend.back) = ColorR(blend.color)
          /\ ColorG(blend.back) = ColorG(blend.color)
          /\ ColorB(blend.back) = ColorB(blend.color)
          /\ ColorA(blend.back) = ColorA(blend.color)

\* A colour of four different channels, packed and unpacked.
C11_Witness ==
    /\ blend.back # None
    /\ blend.color = rgba(0, 201, 128, U8Max)
    /\ blend.word = [hi |-> U8Max * 256, lo |-> 201 * 256 + 128]
    /\ blend.back = blend.color

(***************************************************************************)
(* Claims about repeated drawing (SpecTwice).                              *)
(***************************************************************************)
\* The word put_pixel stores over the word w for the colour c.
BlendOver(c, w) == ColorToU32(linear_blend(c, UnpackU32(w)))

\* The cells the two calls of SpecTwice wrote, each once per call: the cell
\* of an in-range put_pixel, the block of a draw that lies inside the buffer
\* above the logical row 0.
TwiceWritten ==
    IF last.op = "put_pixel_again"
    THEN IF /\ 0 <= last.args[1] /\ last.args[1] < cfg.width
            /\ 0 <= cfg.height - last.args[2] /\ cfg.height - last.args[2] < cfg.height
         THEN {(cfg.height - last.args[2]) * cfg.width + last.args[1]}
         ELSE {}
    ELSE IF last.op = "draw_again" /\ BlockInside(last.args[1], last.args[2])
            /\ last.args[2] >= 1
         THEN BlockCells(last.args[1], last.args[2])
         ELSE {}

\* C12: after two successive put_pixel or draw calls with the same colour c
\* at the same pixel, a written cell holds linear_blend(c, linear_blend(c, d0))
\* for its original value d0: the second call reads the cell the first one
\* updated.  (That this can differ from linear_blend(c, d0) is C12_Witness.)
C12_SecondCallBlendsAgain ==
    \A i \in TwiceWritten :
        VecGet(buffer, i) = BlendOver(last.color, BlendOver(last.color, VecGet(prev, i)))

\* Half-transparent red drawn twice over a buffer cleared to black: the
\* block holds the colour blended twice, which is not the colour blended once.
C12_Witness ==
    /\ last.op = "draw_again"
    /\ last.color = HalfRed
    /\ prev = clear(BLACK)
    /\ TwiceWritten # {}
    /\ \A i \in TwiceWritten :
          /\ VecGet(buffer, i) = BlendOver(HalfRed, BlendOver(HalfRed, VecGet(prev, i)))
          /\ VecGet(buffer, i) # BlendOver(HalfRed, VecGet(prev, i))

(***************************************************************************)
(* Claims about the value of a blended channel (SpecBlend).                *)
(***************************************************************************)
Min(a, b) == IF a <= b THEN a ELSE b
Max(a, b) == IF a >= b THEN a ELSE b

\* The blend of one channel in exact integer arithmetic.
FloorBlend(s, d, a) == (d * (U8Max - a) + s * a) \div U8Max

Channels == {1, 2, 3}

\* C13: each r, g, b channel of linear_blend's result equals
\* floor((dst_c * (255 - a) + src_c * a) / 255) and lies between
\* min(src_c, dst_c) and max(src_c, dst_c).
C13_ChannelIsFloorBlendInRange ==
    blend.out # None =>
        \A k \in Channels :
            /\ blend.out[k + 1] = FloorBlend(blend.src[k + 1], blend.dst[k + 1], ColorA(blend.src))
            /\ Min(blend.src[k + 1], blend.dst[k + 1]) <= blend.out[k + 1]
            /\ blend.out[k + 1] <= Max(blend.src[k + 1], blend.dst[k + 1])

\* What the f32 arithmetic does keep: the channel is the exact floor or one
\* below it.
C13_ChannelWithinOneBelowFloor ==
    blend.out # None =>
        \A k \in Channels :
            LET exact == FloorBlend(blend.src[k + 1], blend.dst[k + 1], ColorA(blend.src))
            IN  blend.out[k + 1] \in {exact - 1, exact}

\* Source 88 over destination 3 with alpha 3: the exact blend is 4, the
\* f32 computation gives 3.
C13_WitnessBelowFloor ==
    /\ blend.out # None
    /\ ColorA(blend.src) = 3
    /\ ColorR(blend.src) = 88
    /\ ColorR(blend.dst) = 3
    /\ FloorBlend(88, 3, 3) = 4
    /\ ColorR(blend.out) = 3

\* Source 3 over destination 3 with alpha 65: the f32 computation gives 2,
\* below both inputs.
C13_WitnessOutOfRange ==
    /\ blend.out # None
    /\ ColorA(blend.src) = 65
    /\ ColorR(blend.src) = 3
    /\ ColorR(blend.dst) = 3
    /\ ColorR(blend.out) = 2

(***************************************************************************)
(* Claims about the alpha byte of buffer cells (SpecShape).                *)
(***************************************************************************)
\* The alpha byte of a buffer word.
AlphaOf(w) == w.hi \div 256

AllOpaque(b) == \A i \in 1..Len(b) : AlphaOf(b[i]) = U8Max

Drawing == last.op \notin {"new", "clear"}

C14_WitnessClearedTransparent ==
    /\ Drawing
    /\ prev = clear(HalfRed)
    /\ buffer # prev
    /\ ~AllOpaque(buffer)

(***************************************************************************)
(* Claims about the points of draw_line (SpecShape).                       *)
(***************************************************************************)
\* The points the last call, a draw_line, passed to draw.
LastLinePoints ==
    draw_line_points(last.args[1], last.args[2], last.args[3], last.args[4])

\* C15: every point draw_line passes to draw satisfies 0 <= x < width and
\* 0 <= y < height, and at most max(width, height) points are passed.
C15_LinePointsInHalfOpenRange ==
    last.op = "draw_line" =>
        /\ \A k \in 1..Len(LastLinePoints) :
              /\ 0 <= LastLinePoints[k][1] /\ LastLinePoints[k][1] < cfg.width
              /\ 0 <= LastLinePoints[k][2] /\ LastLinePoints[k][2] < cfg.height
        /\ Len(LastLinePoints) <= Max(cfg.width, cfg.height)

\* What the inclusive clamp does give: the points lie in the closed ranges
\* 0..width and 0..height, at most max(width, height) + 1 of them.
C15_LinePointsInClosedRange ==
    last.op = "draw_line" =>
        /\ \A k \in 1..Len(LastLinePoints) :
              /\ 0 <= LastLinePoints[k][1] /\ LastLinePoints[k][1] <= cfg.width
              /\ 0 <= LastLinePoints[k][2] /\ LastLinePoints[k][2] <= cfg.height
        /\ Len(LastLinePoints) <= Max(cfg.width, cfg.height) + 1

\* draw_line(0, 0, width + 1, -2): the clamp leaves x1 = width, the line has
\* width + 1 points and its last one, (width, 0), is passed to draw.
C15_WitnessPointAtWidth ==
    /\ last.op = "draw_line"
    /\ last.args = <<0, 0, Width + 1, -2>>
    /\ Len(LastLinePoints) = cfg.width + 1
    /\ LastLinePoints[cfg.width + 1] = <<cfg.width, 0>>

(***************************************************************************)
(* Claims about draw outside the screen (Spec).                            *)
(***************************************************************************)
\* C16: draw(x, y, c) with x < 0, y < 0, x * pixel_width >= width or
\* y * pixel_height > height changes no cell of the buffer.
C16_DrawOutOfRangeIsNoOp ==
    (/\ last.op = "draw"
     /\ \/ last.args[1] < 0
        \/ last.args[2] < 0
        \/ last.args[1] * cfg.pixel_width >= cfg.width
        \/ last.args[2] * cfg.pixel_height > cfg.height) =>
        buffer = prev

\* The part the code does keep: a draw to the right of the screen or below
\* it changes no cell.
C16_DrawRightOrBelowIsNoOp ==
    (/\ last.op = "draw"
     /\ \/ last.args[2] < 0
        \/ last.args[1] * cfg.pixel_width >= cfg.width) =>
        buffer = prev

\* draw(-1, 1, WHITE) on a cleared buffer: the clamp moves every x of the
\* block to 0 and the cells of column 0 in the rows of y = 1 become WHITE.
C16_WitnessLeftPaintsColumnZero ==
    /\ last.op = "draw"
    /\ last.args = <<-1, 1>>
    /\ last.color = WHITE
    /\ prev = clear(BLACK)
    /\ Changed # {}
    /\ \A i \in Changed : i % cfg.width = 0 /\ VecGet(buffer, i) = ColorToU32(WHITE)

\* draw(0, 3, WHITE) on a screen two pixels high: the clamp moves every y of
\* the block to height and cells of the top row become WHITE.
C16_WitnessAbovePaintsTopRow ==
    /\ last.op = "draw"
    /\ last.args = <<0, ScreenSize[2] + 1>>
    /\ last.color = WHITE
    /\ prev = clear(BLACK)
    /\ Changed # {}
    /\ \A i \in Changed : i < cfg.width /\ VecGet(buffer, i) = ColorToU32(WHITE)

(***************************************************************************)
(* Claims about the input queries (SpecInput).                             *)
(***************************************************************************)
\* How many of the booleans of a tuple are true.
RECURSIVE CountTrue(_)
CountTrue(bs) ==
    IF bs = <<>> THEN 0
    ELSE (IF Head(bs) THEN 1 ELSE 0) + CountTrue(Tail(bs))

\* C17: for every key at most one of is_key_pressed, is_key_held and
\* was_key_released is true, each being its combination of is_down and
\* was_down of the recorded state, and all three are false for a key without
\* a recorded state; the same for is_mouse_button_held and
\* was_mouse_button_released of every mouse button.
C17_QueriesMutuallyExclusive ==
    /\ \A key \in Keys :
          /\ CountTrue(<<is_key_pressed(key), is_key_held(key), was_key_released(key)>>) <= 1
          /\ key \notin DOMAIN input.keys =>
                CountTrue(<<is_key_pressed(key), is_key_held(key), was_key_released(key)>>) = 0
          /\ key \in DOMAIN input.keys =>
                /\ is_key_pressed(key) = (input.keys[key].is_down /\ ~input.keys[key].was_down)
                /\ is_key_held(key) = (input.keys[key].is_down /\ input.keys[key].was_down)
                /\ was_key_released(key) = (~input.keys[key].is_down /\ input.keys[key].was_down)
    /\ \A button \in MouseButtons :
          /\ CountTrue(<<is_mouse_button_held(button), was_mouse_button_released(button)>>) <= 1
          /\ button \notin DOMAIN input.mouse.buttons =>
                CountTrue(<<is_mouse_button_held(button), was_mouse_button_released(button)>>) = 0

\* One key just pressed, the other just released, one button held and one
\* released: each query true for its own state only.
C17_Witness ==
    /\ input.keys = [key \in Keys |->
                        IF key = "A" THEN ButtonStateNew(TRUE, FALSE)
                                     ELSE ButtonStateNew(FALSE, TRUE)]
    /\ is_key_pressed("A") /\ ~is_key_held("A") /\ ~was_key_released("A")
    /\ was_key_released("Num1") /\ ~is_key_pressed("Num1") /\ ~is_key_held("Num1")
    /\ is_mouse_button_held("Left") /\ ~was_mouse_button_released("Left")
    /\ was_mouse_button_released("Right") /\ ~is_mouse_button_held("Right")

\* A key held over two calls of process_input.
C17_WitnessHeld ==
    /\ is_key_held("A") /\ ~is_key_pressed("A") /\ ~was_key_released("A")

\* Before the first process_input no state is recorded and every query is false.
C17_WitnessNothingRecorded ==
    /\ input = InputNew
    /\ \A key \in Keys : ~is_key_pressed(key) /\ ~is_key_held(key) /\ ~was_key_released(key)
    /\ \A button \in MouseButtons :
          ~is_mouse_button_held(button) /\ ~was_mouse_button_released(button)

(***************************************************************************)
(* Claims about the filled triangle (SpecTri).                             *)
(***************************************************************************)
\* The k-th vertex (x, y) of six coordinates.
Vertex(v, k) == <<v[2 * k - 1], v[2 * k]>>

\* The orders three vertices can be taken in.
Orders == {<<1, 2, 3>>, <<1, 3, 2>>, <<2, 1, 3>>, <<2, 3, 1>>, <<3, 1, 2>>, <<3, 2, 1>>}

\* The call is past the sort of its vertices.
Sorted == tri.pc # "call"

\* C18: after the three conditional swaps the vertices satisfy
\* y0 <= y1 <= y2 and are the three input vertices in some order, each x
\* still with its own y.
C18_SortIsOrderedPermutation ==
    Sorted =>
        /\ tri.s[2] <= tri.s[4] /\ tri.s[4] <= tri.s[6]
        /\ \E o \in Orders : \A k \in 1..3 : Vertex(tri.s, k) = Vertex(tri.v, o[k])

\* Vertices given from the highest to the lowest: the sort reverses them.
C18_Witness ==
    /\ Sorted
    /\ tri.v = <<0, 2, 1, 1, 2, 0>>
    /\ tri.s = <<2, 0, 1, 1, 0, 2>>

\* Only the last swap is taken.
C18_WitnessLastSwap ==
    /\ Sorted
    /\ tri.v = <<0, 0, 2, 2, 1, 1>>
    /\ tri.s = <<0, 0, 1, 1, 2, 2>>

\* A loop of the call is running.
InLoop == tri.pc \in {"bottom", "top"}

\* A step of fill_inner_triangle moves both trackers up by one scan row.
AdvancesOneRow ==
    (InLoop /\ tri'.calls = tri.calls + 1) =>
        /\ tri'.fill.current_left[2] = tri.fill.current_left[2] + 1
        /\ tri'.fill.current_right[2] = tri.fill.current_right[2] + 1

\* A step that leaves a loop finds both trackers on the terminal y of the half.
EndsOnTerminalRow ==
    (InLoop /\ tri'.pc # tri.pc) =>
        /\ tri.fill.current_left[2] = tri.fill.left_end
        /\ tri.fill.current_right[2] = tri.fill.right_end

\* C19: in both halves the two trackers are on the same y whenever
\* fill_inner_triangle is called, so every span passed to draw_line is
\* horizontal; each call moves each tracker up by exactly one scan row; and
\* each loop ends with both trackers on the terminal y of its half.
C19_TrackersSynchronized ==
    /\ [](InLoop => tri.fill.current_left[2] = tri.fill.current_right[2])
    /\ [](Sorted => \A k \in 1..Len(tri.spans) : tri.spans[k][2] = tri.spans[k][4])
    /\ [][AdvancesOneRow /\ EndsOnTerminalRow]_vars

\* Two rows into the lower loop of a proper triangle: the trackers are on
\* the same row, two above the loop's first, at different x.
C19_Witness ==
    /\ tri.pc = "bottom"
    /\ tri.v = <<0, 0, MaxCoord, 1, 2, MaxCoord>>
    /\ tri.calls = 2
    /\ tri.fill.current_left[2] = tri.s[4] + 2
    /\ tri.fill.current_right[2] = tri.s[4] + 2
    /\ tri.fill.current_left[1] # tri.fill.current_right[1]

\* The scan rows of the spans of a whole call, in the order of the calls:
\* y1 .. y2-1 of the lower loop, then y0 .. y1-1 of the upper one.
SpanRows ==
    [k \in 1..(tri.s[6] - tri.s[2]) |->
        IF k <= tri.s[6] - tri.s[4] THEN tri.s[4] + k - 1
        ELSE tri.s[2] + (k - (tri.s[6] - tri.s[4])) - 1]

\* C20: for integer vertices sorted to y0 <= y1 <= y2 the call issues exactly
\* one span for each scan row y0 <= y < y2, the rows y1 .. y2-1 first and
\* then the rows y0 .. y1-1, and none for the row y2; when y0 = y2 it issues
\* no span and leaves the buffer unchanged.
C20_OneSpanPerRowBelowTop ==
    Sorted =>
        /\ Len(tri.spans) <= Len(SpanRows)
        /\ \A k \in 1..Len(tri.spans) :
              tri.spans[k][2] = SpanRows[k] /\ tri.spans[k][4] = SpanRows[k]
        /\ tri.pc = "done" => Len(tri.spans) = tri.s[6] - tri.s[2]
        /\ tri.pc = "done" /\ tri.s[2] = tri.s[6] => tri.spans = <<>> /\ buffer = prev

\* A proper triangle with its vertices on three rows, returned: one span for
\* each row but the highest, the lower loop's rows first.
C20_Witness ==
    /\ tri.pc = "done"
    /\ tri.v = <<0, 0, MaxCoord, 1, 2, MaxCoord>>
    /\ Len(tri.spans) = MaxCoord
    /\ tri.spans[1][2] = 1
    /\ tri.spans[MaxCoord - 1][2] = MaxCoord - 1
    /\ tri.spans[MaxCoord][2] = 0
    /\ buffer # prev

\* Three vertices on one row, returned: no span, the buffer as it was.
C20_WitnessFlat ==
    /\ tri.pc = "done"
    /\ tri.v = <<0, 2, 3, 2, 1, 2>>
    /\ tri.spans = <<>>
    /\ buffer = prev

(***************************************************************************)
(* Claims about the circle loops (SpecCircle).                             *)
(***************************************************************************)
CircleCalled == circle.pc = "call"

CircleReturned == circle.pc = "done"

\* An iteration of the loop adds 1 to x0 and does not raise y0.
CircleIterationAdvances ==
    (circle.pc = "loop" /\ circle'.pc = "loop") =>
        /\ circle'.c.x0 = circle.c.x0 + 1
        /\ circle'.c.y0 <= circle.c.y0

\* The loop has made at most radius + 1 iterations, none for a negative
\* radius, and then the buffer is as the call found it.
CircleIterationsBounded ==
    circle.pc \in {"loop", "done"} =>
        /\ circle.iterations <= Max(circle.radius + 1, 0)
        /\ circle.radius < 0 =>
              circle.iterations = 0 /\ circle.draws = <<>> /\ buffer = prev

\* C21: draw_wireframe_circle and draw_filled_circle terminate for every
\* integer radius, 0 and negative ones included: every iteration of
\* `while y0 >= x0` adds 1 to x0 and never raises y0, the loop makes at most
\* radius + 1 iterations, and none (buffer unchanged) for a negative radius.
C21_CircleTerminates ==
    /\ CircleCalled ~> CircleReturned
    /\ []CircleIterationsBounded
    /\ [][CircleIterationAdvances]_vars

\* A returned call with the largest radius of the model: several
\* iterations, within the bound, and cells written.
C21_Witness ==
    /\ CircleReturned
    /\ circle.radius = MaxRadius
    /\ circle.iterations >= 2
    /\ circle.iterations <= MaxRadius + 1
    /\ buffer # prev

\* A returned call with a negative radius: no iteration, nothing drawn.
C21_WitnessNegative ==
    /\ CircleReturned
    /\ circle.radius = -1
    /\ circle.iterations = 0
    /\ buffer = prev

\* The step-wise call draws what the call as a whole does: on return its
\* draws are the points of the whole loop and the buffer is the one
\* draw_wireframe_circle or draw_filled_circle gives.
CircleStepsAgreeWithCall ==
    CircleReturned =>
        IF circle.kind = "draw_wireframe_circle"
        THEN /\ circle.draws = draw_wireframe_circle_points(circle.x, circle.y, circle.radius)
             /\ buffer = draw_wireframe_circle(prev, circle.x, circle.y, circle.radius,
                                               circle.color)
        ELSE /\ circle.draws = draw_filled_circle_points(circle.x, circle.y, circle.radius)
             /\ buffer = draw_filled_circle(prev, circle.x, circle.y, circle.radius,
                                            circle.color)

\* C22: for radius 0 the loop body does not execute: the call passes no
\* point to draw and leaves the buffer unchanged.
C22_RadiusZeroDrawsNothing ==
    (CircleReturned /\ circle.radius = 0) =>
        /\ circle.iterations = 0
        /\ circle.draws = <<>>
        /\ buffer = prev

\* What the code does for radius 0: y0 = 0 >= x0 = 0 holds once, and the one
\* iteration passes the centre alone to draw, eight times (wireframe) or
\* four times (filled).
C22_RadiusZeroDrawsCentre ==
    (CircleReturned /\ circle.radius = 0) =>
        /\ circle.iterations = 1
        /\ Len(circle.draws) = (IF circle.kind = "draw_wireframe_circle" THEN 8 ELSE 4)
        /\ \A k \in 1..Len(circle.draws) : circle.draws[k] = <<circle.x, circle.y>>

\* draw_wireframe_circle with radius 0 and an opaque colour on a cleared
\* buffer: the cell of the centre is painted.
C22_WitnessCentrePainted ==
    /\ CircleReturned
    /\ circle.radius = 0
    /\ circle.kind = "draw_wireframe_circle"
    /\ circle.color = WHITE
    /\ prev = clear(BLACK)
    /\ Changed = {(cfg.height - circle.y) * cfg.width + circle.x}
    /\ VecGet(buffer, (cfg.height - circle.y) * cfg.width + circle.x) = ColorToU32(WHITE)

\* C23: in one call with radius >= 1 and nothing clipped no logical pixel is
\* passed to draw more than once, so every cell the call changes holds
\* linear_blend(c, original cell), blended a single time.
C23_PointsDrawnOnce ==
    (/\ CircleReturned
     /\ circle.radius >= 1
     /\ Unclipped(circle.x, circle.y, circle.radius)) =>
        /\ \A j, k \in 1..Len(circle.draws) : j # k => circle.draws[j] # circle.draws[k]
        /\ \A i \in Changed : VecGet(buffer, i) = BlendOver(circle.color, VecGet(prev, i))

\* draw_wireframe_circle with radius 1 and a half-transparent colour: the
\* first iteration passes (x, y + 1) to draw twice, and its cell holds the
\* colour blended twice.
C23_WitnessBlendedTwice ==
    /\ CircleReturned
    /\ circle.kind = "draw_wireframe_circle"
    /\ circle.radius = 1
    /\ circle.color = HalfRed
    /\ prev = clear(BLACK)
    /\ Unclipped(circle.x, circle.y, 1)
    /\ circle.draws[1] = <<circle.x, circle.y + 1>>
    /\ circle.draws[2] = <<circle.x, circle.y + 1>>
    /\ LET i == (cfg.height - (circle.y + 1)) * cfg.width + circle.x
       IN  /\ VecGet(buffer, i) = BlendOver(HalfRed, BlendOver(HalfRed, VecGet(prev, i)))
           /\ VecGet(buffer, i) # BlendOver(HalfRed, VecGet(prev, i))

(***************************************************************************)
(* Claims about the filled rectangle (SpecShape).                          *)
(***************************************************************************)
\* The points the last call, a draw_filled_rectangle, passed to draw.
LastRectPoints ==
    draw_filled_rectangle_points(last.args[1], last.args[2], last.args[3], last.args[4])

\* The points of the same rectangle given from its opposite corner.
MirrorRectPoints ==
    draw_filled_rectangle_points(last.args[1] + last.args[3], last.args[2] + last.args[4],
                                 -last.args[3], -last.args[4])

\* C24: draw_filled_rectangle(x, y, w, h) and
\* draw_filled_rectangle(x+w, y+h, -w, -h) give the same buffer (for every
\* colour of the model, the opaque one among them), and the loops run from
\* the smaller to the larger clamped coordinate: the points start at the
\* smaller clamped corner, end at the larger one, and rise row by row.
C24_RectangleCornersNormalized ==
    last.op = "draw_filled_rectangle" =>
        /\ buffer = draw_filled_rectangle(prev, last.args[1] + last.args[3],
                                          last.args[2] + last.args[4],
                                          -last.args[3], -last.args[4], last.color)
        /\ LastRectPoints = MirrorRectPoints
        /\ Len(LastRectPoints) >= 1
        /\ LastRectPoints[1] =
              <<Min(clamp(0, last.args[1], cfg.width),
                    clamp(0, last.args[1] + last.args[3], cfg.width)),
                Min(clamp(0, last.args[2], cfg.height),
                    clamp(0, last.args[2] + last.args[4], cfg.height))>>
        /\ LastRectPoints[Len(LastRectPoints)] =
              <<Max(clamp(0, last.args[1], cfg.width),
                    clamp(0, last.args[1] + last.args[3], cfg.width)),
                Max(clamp(0, last.args[2], cfg.height),
                    clamp(0, last.args[2] + last.args[4], cfg.height))>>
        /\ \A k \in 1..(Len(LastRectPoints) - 1) :
              \/ /\ LastRectPoints[k + 1][2] = LastRectPoints[k][2]
                 /\ LastRectPoints[k + 1][1] = LastRectPoints[k][1] + 1
              \/ /\ LastRectPoints[k + 1][2] = LastRectPoints[k][2] + 1
                 /\ LastRectPoints[k + 1][1] = LastRectPoints[1][1]

\* A rectangle given from its upper right corner with negative width and
\* height: cells are written, the same as from the lower left corner.
C24_Witness ==
    /\ last.op = "draw_filled_rectangle"
    /\ last.args = <<4, 3, -3, -1>>
    /\ last.color = WHITE
    /\ prev = clear(BLACK)
    /\ buffer # prev
    /\ buffer = draw_filled_rectangle(prev, 1, 2, 3, 1, WHITE)
    /\ LastRectPoints[1] = <<1, 2>>
    /\ LastRectPoints[Len(LastRectPoints)] = <<4, 3>>

(***************************************************************************)
(* Claims about the size of the buffer (Spec).                             *)
(***************************************************************************)
\* The last call, a put_pixel, passed the bounds check of put_pixel.
PutPixelInBounds ==
    /\ last.op = "put_pixel"
    /\ last.args[1] >= 0 /\ last.args[1] < cfg.width
    /\ cfg.height - last.args[2] >= 0 /\ cfg.height - last.args[2] < cfg.height

\* buffer_idx of the last put_pixel.
LastBufferIdx == (cfg.height - last.args[2]) * cfg.width + last.args[1]

\* C25: the buffer has width * height cells after construction and after
\* every clear and drawing operation, and the index put_pixel computes after
\* its bounds check lies in 0 .. width * height - 1: the write (on a blank
\* buffer, the one changed cell) is a cell of the buffer.
C25_BufferNeverResized ==
    /\ Len(buffer) = cfg.width * cfg.height
    /\ Len(prev) = cfg.width * cfg.height
    /\ PutPixelInBounds =>
          /\ 0 <= LastBufferIdx /\ LastBufferIdx < Len(buffer)
          /\ OnBlank => Changed = {LastBufferIdx}

\* put_pixel at the right end of the lowest row it accepts, after a clear:
\* the index is the last of the buffer, width * height - 1.
C25_Witness ==
    /\ PutPixelInBounds
    /\ cfg.pixel_width = 4
    /\ last.args = <<cfg.width - 1, 1>>
    /\ prev = clear(BLACK)
    /\ Len(buffer) = cfg.width * cfg.height
    /\ LastBufferIdx = cfg.width * cfg.height - 1
    /\ Changed = {LastBufferIdx}

(***************************************************************************)
(* Claims about clear (Spec).                                              *)
(***************************************************************************)
\* Every cell of the buffer b holds the packed word of the colour.
FilledWith(b, color) ==
    /\ Len(b) = cfg.width * cfg.height
    /\ \A i \in 1..Len(b) : b[i] = ColorToU32(color)

\* A clear leaves the buffer filled with its colour, whatever it held before.
ClearOverwrites == last'.op = "clear" => FilledWith(buffer', last'.color)

\* C26: after clear(c) every one of the width * height cells holds the
\* packed word of c, alpha byte of c included, whatever the buffer held
\* before the call: nothing is blended.
C26_ClearOverwritesAll ==
    /\ [](last.op = "clear" =>
            /\ FilledWith(buffer, last.color)
            /\ \A i \in 1..Len(buffer) : AlphaOf(buffer[i]) = ColorA(last.color))
    /\ [][ClearOverwrites]_vars

\* A clear with the half-transparent red: every cell keeps the alpha 128.
C26_Witness ==
    /\ last.op = "clear"
    /\ last.color = HalfRed
    /\ cfg.pixel_width = 2
    /\ Len(buffer) = cfg.width * cfg.height
    /\ \A i \in 1..Len(buffer) :
          buffer[i] = [hi |-> 128 * 256 + U8Max, lo |-> 0]

(***************************************************************************)
(* Claims about draw_sprite (SpecSprite).                                  *)
(***************************************************************************)
SpriteDrawn == last.op = "draw_sprite"

LastSprite == last.args[3]

LastSpriteCalls == draw_sprite_calls(last.args[1], last.args[2], LastSprite)

\* The r, g, b, a bytes stored for column c, row r of the last sprite.
StoredColor(c, r) ==
    rgba(LastSprite.data[4 * (r * LastSprite.width + c) + 1],
         LastSprite.data[4 * (r * LastSprite.width + c) + 2],
         LastSprite.data[4 * (r * LastSprite.width + c) + 3],
         LastSprite.data[4 * (r * LastSprite.width + c) + 4])

\* The buffer cell of column c, row r of the last sprite.
SpriteCell(c, r) ==
    (cfg.height - (last.args[2] + (LastSprite.height - r))) * cfg.width + (last.args[1] + c)

\* Every pixel of the last sprite lands inside the buffer.
SpriteUnclipped ==
    /\ last.args[1] >= 0 /\ last.args[1] + LastSprite.width <= cfg.width
    /\ last.args[2] >= 0 /\ last.args[2] + LastSprite.height <= cfg.height

\* draw is called once for every sprite pixel, row by row, the pixel of
\* column c, row r at (x + c, y + (h - r)) with its stored colour, so row 0
\* is on the highest logical row; an unclipped sprite puts row r on the
\* buffer row height - y - h + r, below row r - 1 as in the storage.
SpriteCallsInPlace ==
    /\ Len(LastSpriteCalls) = LastSprite.width * LastSprite.height
    /\ \A r \in 0..(LastSprite.height - 1), c \in 0..(LastSprite.width - 1) :
          /\ LastSpriteCalls[r * LastSprite.width + c + 1] =
                <<last.args[1] + c, last.args[2] + (LastSprite.height - r), StoredColor(c, r)>>
          /\ LastSpriteCalls[r * LastSprite.width + c + 1][2] <= LastSpriteCalls[1][2]
          /\ SpriteUnclipped =>
                /\ VecGet(buffer, SpriteCell(c, r)) =
                      BlendOver(StoredColor(c, r), VecGet(prev, SpriteCell(c, r)))
                /\ SpriteCell(c, r) \div cfg.width = SpriteCell(c, 0) \div cfg.width + r
    /\ SpriteUnclipped =>
          Changed \subseteq {SpriteCell(c, r) : c \in 0..(LastSprite.width - 1),
                                                r \in 0..(LastSprite.height - 1)}

\* C27: draw_sprite calls draw once for every sprite pixel, in row-major
\* order, the pixel of column c, row r at (x + c, y + (h - r)) with its stored
\* r, g, b, a as the source; row 0 lands on the highest logical row and the
\* orientation is kept on screen; a fully transparent sprite pixel leaves its
\* destination cell unchanged.
C27_SpriteAsStated ==
    SpriteDrawn =>
        /\ SpriteCallsInPlace
        /\ SpriteUnclipped =>
              \A r \in 0..(LastSprite.height - 1), c \in 0..(LastSprite.width - 1) :
                  ColorA(StoredColor(c, r)) = 0 =>
                      VecGet(buffer, SpriteCell(c, r)) = VecGet(prev, SpriteCell(c, r))

\* C27, amended: as above, but a fully transparent sprite pixel leaves the
\* r, g, b of its destination cell unchanged and sets the cell's alpha to
\* 255: the cell is unchanged when its alpha was 255.
C27_SpriteTransparentKeepsChannels ==
    SpriteDrawn =>
        /\ SpriteCallsInPlace
        /\ SpriteUnclipped =>
              \A r \in 0..(LastSprite.height - 1), c \in 0..(LastSprite.width - 1) :
                  ColorA(StoredColor(c, r)) = 0 =>
                      /\ VecGet(buffer, SpriteCell(c, r)).lo = VecGet(prev, SpriteCell(c, r)).lo
                      /\ VecGet(buffer, SpriteCell(c, r)).hi % 256 =
                            VecGet(prev, SpriteCell(c, r)).hi % 256
                      /\ AlphaOf(VecGet(buffer, SpriteCell(c, r))) = U8Max
                      /\ AlphaOf(VecGet(prev, SpriteCell(c, r))) = U8Max =>
                            VecGet(buffer, SpriteCell(c, r)) = VecGet(prev, SpriteCell(c, r))

\* The 2x2 sprite at (2, 3) over a buffer cleared to black: its row 0 is on
\* the logical row 5, white and the red blended once; its row 1 on the
\* logical row 4, the transparent pixel's cell still black, then blue.
C27_Witness ==
    /\ SpriteDrawn
    /\ last.args = <<2, 3, SpriteSquare>>
    /\ prev = clear(BLACK)
    /\ SpriteUnclipped
    /\ VecGet(buffer, (cfg.height - 5) * cfg.width + 2) = ColorToU32(WHITE)
    /\ VecGet(buffer, (cfg.height - 5) * cfg.width + 3) = BlendOver(HalfRed, ColorToU32(BLACK))
    /\ VecGet(buffer, (cfg.height - 4) * cfg.width + 2) = ColorToU32(BLACK)
    /\ VecGet(buffer, (cfg.height - 4) * cfg.width + 3) = ColorToU32(rgba(0, 0, 255, 255))
    /\ Cardinality(Changed) = 3

\* The same sprite on the buffer as constructed, all 0: the cell of the
\* transparent pixel changes from 0x00000000 to 0xFF000000.
C27_WitnessAlphaSet ==
    /\ SpriteDrawn
    /\ last.args = <<2, 3, SpriteSquare>>
    /\ prev = FrameBufferNew(cfg.width, cfg.height)
    /\ VecGet(prev, (cfg.height - 4) * cfg.width + 2) = [hi |-> 0, lo |-> 0]
    /\ VecGet(buffer, (cfg.height - 4) * cfg.width + 2) = [hi |-> U8Max * 256, lo |-> 0]

(***************************************************************************)
(* Claims about the points of a line (SpecLine).                           *)
(***************************************************************************)
\* max(|x1 - x0|, |y1 - y0|) + 1 of the walker's line.
LinePointCount ==
    Max(Abs(walker.to[1] - walker.from[1]), Abs(walker.to[2] - walker.from[2])) + 1

\* C28: for non-negative integer endpoints a BresenhamLine yields exactly
\* max(|x1-x0|, |y1-y0|) + 1 points, pairwise distinct, each inside the
\* bounding box of the endpoints and so never negative, and from one point
\* to the next x changes by 0 or sx and y by 0 or sy.
C28_LinePointsExact ==
    /\ Len(Yielded) <= LinePointCount
    /\ walker.line.line_complete => Len(Yielded) = LinePointCount
    /\ \A j, k \in 1..Len(Yielded) : j # k => Yielded[j] # Yielded[k]
    /\ \A k \in 1..Len(Yielded) :
          /\ Min(walker.from[1], walker.to[1]) <= Yielded[k][1]
          /\ Yielded[k][1] <= Max(walker.from[1], walker.to[1])
          /\ Min(walker.from[2], walker.to[2]) <= Yielded[k][2]
          /\ Yielded[k][2] <= Max(walker.from[2], walker.to[2])
          /\ Yielded[k][1] >= 0 /\ Yielded[k][2] >= 0
    /\ \A k \in 1..(Len(Yielded) - 1) :
          /\ Yielded[k + 1][1] - Yielded[k][1] \in
                {0, IF walker.from[1] < walker.to[1] THEN 1 ELSE -1}
          /\ Yielded[k + 1][2] - Yielded[k][2] \in
                {0, IF walker.from[2] < walker.to[2] THEN 1 ELSE -1}

\* A complete walk from (MaxCoord, 1) left and up to (0, 3): MaxCoord + 1
\* points, next() called once more.
C28_Witness ==
    /\ walker.from = <<MaxCoord, 1>>
    /\ walker.to = <<0, 3>>
    /\ walker.ret = None
    /\ Len(Yielded) = MaxCoord + 1
    /\ LastYielded = <<0, 3>>

(***************************************************************************)
(* Claims about successive frames of input (SpecInput).                    *)
(***************************************************************************)
\* The key was down in the frame of the last process_input, if any.
KeyDown(key) ==
    IF key \in DOMAIN input.keys THEN input.keys[key].is_down ELSE FALSE

\* One process_input: was_down becomes the is_down of the call before
\* (false before the first call), so pressed is true in the first frame of a
\* down run, held in its later frames, released in the frame after the run.
FrameFollowsFrame ==
    \A key \in Keys :
        /\ input'.keys[key].was_down = KeyDown(key)
        /\ is_key_pressed(key)' = (input'.keys[key].is_down /\ ~KeyDown(key))
        /\ is_key_held(key)' = (input'.keys[key].is_down /\ KeyDown(key))
        /\ was_key_released(key)' = (~input'.keys[key].is_down /\ KeyDown(key))

\* C29: across successive process_input calls each key's was_down equals
\* its is_down of the previous call (false before the first call), so
\* is_key_pressed is true exactly in the first frame of a down run,
\* is_key_held in every later frame of the run, and was_key_released exactly
\* in the one frame that follows the run.
C29_FramesChain == [][FrameFollowsFrame]_vars

\* The frame after a run of A and inside a run of Num1: A released and
\* nothing else, Num1 held and nothing else.
C29_Witness ==
    /\ input.keys = [key \in Keys |->
                        IF key = "A" THEN ButtonStateNew(FALSE, TRUE)
                                     ELSE ButtonStateNew(TRUE, TRUE)]
    /\ was_key_released("A") /\ ~is_key_pressed("A") /\ ~is_key_held("A")
    /\ is_key_held("Num1") /\ ~is_key_pressed("Num1") /\ ~was_key_released("Num1")

(***************************************************************************)
(* Claims about the main loop (SpecRun).                                   *)
(***************************************************************************)
\* The calls of one whole iteration, in order.
FullFrame == <<"process_input", "on_update", "display">>

\* The calls the current iteration has made are those its position implies,
\* each once and in order; run returns Ok only after a whole iteration that
\* found should_close true, and an error of display only after the display
\* of a whole iteration.
FrameInOrder ==
    /\ app.pc \in {"should_close", "process_input"} => app.events = <<>>
    /\ app.pc = "on_update" => app.events = <<"process_input">>
    /\ app.pc = "display" => app.events = <<"process_input", "on_update">>
    /\ app.pc = "while" /\ app.frames >= 1 => app.events = FullFrame
    /\ app.result = "Ok" => app.closing /\ ~app.running /\ app.events = FullFrame
    /\ app.result = "Err(Window)" => app.events = FullFrame

\* An iteration that found should_close true goes on to process_input; after
\* it no further iteration starts and run returns Ok; a failed display ends
\* run with its error; after its return run does nothing.
RunStepsInOrder ==
    /\ (app.pc = "should_close") => app'.pc = "process_input"
    /\ (app.pc = "while" /\ ~app.running) => (app'.pc = "done" /\ app'.result = "Ok")
    /\ (app.pc = "display" /\ app'.pc = "done") => app'.result = "Err(Window)"
    /\ (app.pc = "display" /\ app'.pc # "done") => app'.pc = "while"
    /\ app.pc # "done"

\* C30: every iteration of Apparatus::run performs process_input, on_update
\* and display, in that order and each exactly once; an iteration that finds
\* should_close true still updates and displays, and then no further
\* iteration starts and run returns Ok; when display returns an error run
\* returns that error at once.
C30_RunLoopOrder == []FrameInOrder /\ [][RunStepsInOrder]_vars

\* run returned Ok after two iterations: the second found should_close
\* true and still made its three calls.
C30_Witness ==
    /\ app.pc = "done"
    /\ app.result = "Ok"
    /\ app.frames = 2
    /\ app.closing
    /\ app.events = FullFrame

\* run returned the error of the first display.
C30_WitnessDisplayError ==
    /\ app.pc = "done"
    /\ app.result = "Err(Window)"
    /\ app.frames = 1
    /\ ~app.closing
    /\ app.events = FullFrame

=============================================================================
